---- MODULE Spec2Model ----
(***************************************************************************)
(* Glide content script: the execution engine (ghostNavigator.ts) and its  *)
(* host (content/index.ts) in one page context, with the durable hand-off  *)
(* slot in chrome.storage.local.                                           *)
(*                                                                         *)
(* One action is one run-to-completion segment of an async function: the   *)
(* code between two awaits that yield to the event loop (a timer, a        *)
(* storage call, a fetch).  Three async activities of a context can be in  *)
(* flight together: the EXECUTE_PLAN message handler ("msg"), initialize   *)
(* ("init") and checkUrlChange ("poll").                                   *)
(***************************************************************************)
EXTENDS Integers, Sequences, FiniteSets, TLC

\* Longest plan the planner hands over.
MaxSteps == 2
\* Number of characters of the value a fill step types.
ValueLen == 1
\* Number of plans the engine takes from the popup.
MaxExecs == 2
\* Number of calls of a step executor run on its own against one page.
MaxCalls == 2

VARIABLES
  slot,              \* chrome.storage.local[EXECUTION_STATE_KEY]
  isExecuting,       \* ghostNavigator.ts: the single-flight lock
  engToken,          \* ghostNavigator.ts: activeCancellationToken
  idxToken,          \* index.ts: activeCancellationToken
  resumeInProgress,  \* index.ts: guard against duplicate resumes
  manifest,          \* manifestLoader: cachedManifest is not null
  navPending,        \* a navigation click was issued, the page has not reacted
  cancelled,         \* tokens whose _isCancelled is true
  planned,           \* popup: the steps of the plan the planner produced
  ghostMarks,        \* elements carrying GHOST_CLASS (by target step index)
  tk,                \* the three async activities
  execs,             \* number of plans the engine has taken from the popup
  returned,          \* the last ExecutionResult the engine returned, and to whom
  reached,           \* per plan: the highest position passed to onProgress
  solo               \* a step executor run on its own against a page

vars == <<slot, isExecuting, engToken, idxToken, resumeInProgress, manifest,
          navPending, cancelled, planned, ghostMarks, tk, execs, returned,
          reached, solo>>

Task == {"msg", "init", "poll"}
Resumer == {"init", "poll"}

StepType == {"navigate", "fill", "submit"}
ExecutionStep == [type : StepType]
StepSeqs == UNION {[1..n -> ExecutionStep] : n \in 0..MaxSteps}

\* plan.stopped is history: CANCEL_EXECUTION answered SUCCESS while the plan was
\* running or waiting in the slot.
\* plan.noted is history: the number of errors pushed while a step of the plan
\* ran, in this run or in the runs before a hand-off.
\* plan.id tells the plans of the popup apart.
NoPlan == [id |-> 0, steps |-> <<>>, currentStep |-> 0, status |-> "none",
           stopped |-> FALSE, noted |-> 0]
NoState == [plan |-> NoPlan]
NoResult == [success |-> FALSE, completedSteps |-> 0, totalSteps |-> 0,
             message |-> "none", errors |-> <<>>, navigating |-> FALSE,
             cancelled |-> FALSE]
NoReturn == [by |-> "none", res |-> NoResult]
\* A token is named after the activity that created it; NoToken is null.
NoToken == "none"

\* nav tells of the navigate step begun last whether its target is the route the
\* page is on (getCurrentRoute): "current" or "other".
NoNav == "none"

\* begun counts the calls of executeStep and calls those of onProgress in the
\* run; last is the outcome of the step result the loop handled last: "ok",
\* "failed" (success=false), "fatal" (fatal=true) or "threw" (an exception).
IdleTask == [pc |-> "idle", kind |-> "none", plan |-> NoPlan, cur |-> 0,
             errors |-> <<>>, token |-> NoToken, i |-> 0, pend |-> NoState,
             begun |-> 0, calls |-> 0, last |-> "none", nav |-> NoNav]

\* The plans the popup sends are numbered from 1.
PlanIds == 1..MaxExecs

\* The plan is held by an activity or waits in the slot after this step.
Live(id) ==
  \/ slot'.plan.id = id
  \/ \E t \in Task : tk'[t].plan.id = id \/ tk'[t].pend.plan.id = id

\* History is kept for the plans that can still run: once no activity and no
\* persisted state holds a plan, none of its steps can begin any more.
Kept == [id \in PlanIds |-> IF Live(id) THEN reached[id] ELSE 0]

\* Positions inside executeFromStep and the step executors.
StepPcs == {"nav_marked", "nav_clicked", "fill_locate", "fill_typing",
            "fill_verify", "submit_locate", "submit_marked", "submit_clicked"}
EnginePcs == StepPcs \cup {"loop", "saving", "finish", "cancel_in", "cancel_out"}

\* The invocation is inside executeFromStep.
Active(t) == tk[t].pc \in EnginePcs
\* The invocation holds the loop: it is executing steps or finishing them.
Executing(t) == tk[t].pc \in EnginePcs \ {"cancel_out"}

\* An activity is inside a synchronous segment: it has entered or re-entered
\* the loop of executeFromStep and has not reached the next await.  JavaScript
\* runs the segment to its end before any other handler or timer.
Busy == \E t \in Task : tk[t].pc = "loop"

\* CancellationToken.isCancelled
IsCancelled(tok) == tok \in cancelled

--------------------------------------------------------------------------
(* Results built by executeFromStep *)

AlreadyInProgress(plan) ==
  [success |-> FALSE, completedSteps |-> 0, totalSteps |-> Len(plan.steps),
   message |-> "Execution already in progress", errors |-> <<>>,
   navigating |-> FALSE, cancelled |-> FALSE]

NoManifestResult ==
  [success |-> FALSE, completedSteps |-> 0, totalSteps |-> 0,
   message |-> "No manifest loaded", errors |-> <<>>,
   navigating |-> FALSE, cancelled |-> FALSE]

\* The hand-off result reported as a terminal one.
NavigatingResultTerminal(plan, cur) ==
  [success |-> TRUE, completedSteps |-> cur + 1, totalSteps |-> Len(plan.steps),
   message |-> "Completed successfully", errors |-> <<>>,
   navigating |-> FALSE, cancelled |-> FALSE]

\* The result returned after the state was saved on needsNavigation.
NavigatingResult(plan, cur) ==
  [success |-> TRUE, completedSteps |-> cur + 1, totalSteps |-> Len(plan.steps),
   message |-> "Navigating... execution will continue on new page", errors |-> <<>>,
   navigating |-> TRUE, cancelled |-> FALSE]

\* The cancelled result that counts the interrupted step as finished.
CancelledResultNext(plan, cur) ==
  [success |-> FALSE, completedSteps |-> cur + 1, totalSteps |-> Len(plan.steps),
   message |-> "Execution cancelled", errors |-> <<>>,
   navigating |-> FALSE, cancelled |-> TRUE]

CancelledResult(plan, cur) ==
  [success |-> FALSE, completedSteps |-> cur, totalSteps |-> Len(plan.steps),
   message |-> "Execution cancelled", errors |-> <<>>,
   navigating |-> FALSE, cancelled |-> TRUE]

\* The completion result computed from the persisted cursor plan.currentStep
\* instead of the loop's own cursor.
CompletedResultStale(plan, cur, errors) ==
  LET success == plan.currentStep = Len(plan.steps) /\ errors = <<>>
  IN [success |-> success, completedSteps |-> plan.currentStep,
      totalSteps |-> Len(plan.steps),
      message |-> IF success THEN "Completed successfully"
                  ELSE "Completed with " \o ToString(Len(errors)) \o " error(s)",
      errors |-> errors, navigating |-> FALSE, cancelled |-> FALSE]

CompletedResult(plan, cur, errors) ==
  LET success == cur = Len(plan.steps) /\ errors = <<>>
  IN [success |-> success, completedSteps |-> cur, totalSteps |-> Len(plan.steps),
      message |-> IF success THEN "Completed successfully"
                  ELSE "Completed with " \o ToString(Len(errors)) \o " error(s)",
      errors |-> errors, navigating |-> FALSE, cancelled |-> FALSE]

\* The saved state whose cursor is advanced twice.
SavedStateSkip(plan, cur) ==
  [plan |-> [plan EXCEPT !.currentStep = cur + 2, !.status = "executing"]]

\* What saveExecutionState writes on needsNavigation.
SavedState(plan, cur) ==
  [plan |-> [plan EXCEPT !.currentStep = cur + 1, !.status = "executing"]]

\* ExecutionPlan.status
PlanStatus == {"pending", "confirmed", "executing", "paused", "completed", "error"}

\* The plan handed to executeFromStep as the message carried it.
PreparedAsGiven(plan) == plan

\* executePlan: plan.status = 'executing'; plan.currentStep = 0
Prepared(plan) == [plan EXCEPT !.status = "executing", !.currentStep = 0]

\* The cursor variant that starts every run at the first step.
StartCursorZero(plan) == 0

\* The cursor executeFromStep starts from.
StartCursor(plan) == plan.currentStep

\* The lock variant that never rejects.
NeverHeld == FALSE

\* The single-flight test at the head of executeFromStep.
LockHeld == isExecuting

\* The test that takes any stored state for a pending one.
IsPendingAny(state) == state # NoState

\* The test checkPendingExecution applies to what it loaded.
IsPending(state) == state # NoState /\ state.plan.status = "executing"

\* What clearExecutionState leaves in the slot.
ClearedSlot == NoState

--------------------------------------------------------------------------
(* The host's continuation once the engine has returned a result *)

\* The token of the finished run is garbage: no one reads it again.
Return(t, res) ==
  /\ tk' = [tk EXCEPT ![t] = IdleTask]
  /\ returned' = [by |-> t, res |-> res]
  /\ cancelled' = cancelled \ {tk[t].token}
  /\ IF t = "msg"
       THEN /\ idxToken' = IF res.navigating THEN idxToken ELSE NoToken
            /\ UNCHANGED resumeInProgress
       ELSE /\ idxToken' = NoToken
            /\ resumeInProgress' = FALSE

\* A new run of executeFromStep for activity t.
RunTask(t, kind, plan, pend) ==
  [pc |-> "loop", kind |-> kind, plan |-> plan, cur |-> StartCursor(plan),
   errors |-> <<>>, token |-> t, i |-> 0, pend |-> pend, begun |-> 0,
   calls |-> 0, last |-> "none", nav |-> NoNav]

--------------------------------------------------------------------------
(* Step outcomes, as the loop of executeFromStep treats them *)

StepOk(t) == [tk[t] EXCEPT !.pc = "loop", !.cur = @ + 1, !.i = 0, !.last = "ok"]

\* The failure handling without the break on fatal.
StepFailOn(t, err, fatal) ==
  [tk[t] EXCEPT !.pc = "loop", !.cur = @ + 1, !.errors = Append(@, err),
                !.i = 0, !.last = IF fatal THEN "fatal" ELSE "failed",
                !.plan.noted = @ + 1]

StepFail(t, err, fatal) ==
  IF fatal
    THEN [tk[t] EXCEPT !.pc = "finish", !.errors = Append(@, err), !.i = 0,
                       !.last = "fatal", !.plan.noted = @ + 1]
    ELSE [tk[t] EXCEPT !.pc = "loop", !.cur = @ + 1, !.errors = Append(@, err),
                       !.i = 0, !.last = "failed",
                       !.plan.noted = @ + 1]

\* An exception other than CancellationError thrown inside executeStep: the
\* inner catch records its message and leaves the loop.
StepRaise(t, err) ==
  [tk[t] EXCEPT !.pc = "finish", !.errors = Append(@, err), !.i = 0,
                !.last = "threw", !.plan.noted = @ + 1]

\* CancellationError thrown inside executeStep: caught by the inner catch.
StepThrow(t) == [tk[t] EXCEPT !.pc = "cancel_in"]

--------------------------------------------------------------------------
(* Strings, as sequences of characters, and the fuzzy match of executeSelect *)

UpperCase == <<"A", "B", "C", "D", "E", "F", "G", "H", "I", "J", "K", "L", "M",
               "N", "O", "P", "Q", "R", "S", "T", "U", "V", "W", "X", "Y", "Z">>
LowerCase == <<"a", "b", "c", "d", "e", "f", "g", "h", "i", "j", "k", "l", "m",
               "n", "o", "p", "q", "r", "s", "t", "u", "v", "w", "x", "y", "z">>

\* String.prototype.toLowerCase
toLowerCase(s) ==
  [i \in 1..Len(s) |->
     IF \E k \in 1..Len(UpperCase) : UpperCase[k] = s[i]
       THEN LowerCase[CHOOSE k \in 1..Len(UpperCase) : UpperCase[k] = s[i]]
       ELSE s[i]]

IsSpace(c) == c = " "

RECURSIVE trimStart(_)
trimStart(s) == IF s # <<>> /\ IsSpace(Head(s)) THEN trimStart(Tail(s)) ELSE s

RECURSIVE trimEnd(_)
trimEnd(s) ==
  IF s # <<>> /\ IsSpace(s[Len(s)]) THEN trimEnd(SubSeq(s, 1, Len(s) - 1)) ELSE s

\* String.prototype.trim
trim(s) == trimEnd(trimStart(s))

\* a.includes(b)
includes(a, b) == \E i \in 0..(Len(a) - Len(b)) : SubSeq(a, i + 1, i + Len(b)) = b

\* s.split(/\s+/), word being the word under construction
RECURSIVE splitWords(_, _)
splitWords(s, word) ==
  IF s = <<>> THEN <<word>>
  ELSE IF IsSpace(Head(s)) THEN <<word>> \o splitWords(trimStart(s), <<>>)
  ELSE splitWords(Tail(s), Append(word, Head(s)))

\* A similarity is the exact fraction num / den.
Score(n, d) == [num |-> n, den |-> d]
Greater(x, y) == x.num * y.den > y.num * x.den
MaxScore(x, y) == IF Greater(y, x) THEN y ELSE x

\* The acceptance threshold 0.6 of executeSelect.
Threshold == Score(6, 10)
\* The threshold variant that accepts only an exact match.
AcceptedExactOnly(x) == x.num = x.den
\* bestScore >= 0.6
Accepted(x) == ~Greater(Threshold, x)

\* The number of option texts the rejection message lists.
MaxListed == 5

\* The similarity with the matched words divided by the word count of a.
stringSimilarityOverA(a, b) ==
  LET aLower == trim(toLowerCase(a))
      bLower == trim(toLowerCase(b))
      aWords == splitWords(aLower, <<>>)
      bWords == splitWords(bLower, <<>>)
      matchedWords ==
        Cardinality({i \in 1..Len(aWords) :
                       \E j \in 1..Len(bWords) :
                          \/ includes(bWords[j], aWords[i])
                          \/ includes(aWords[i], bWords[j])})
  IN IF aLower = bLower THEN Score(1, 1)
     ELSE IF includes(aLower, bLower) \/ includes(bLower, aLower)
       THEN Score(9, 10)
     ELSE Score(matchedWords, Len(aWords))

\* stringSimilarity(a, b)
stringSimilarity(a, b) ==
  LET aLower == trim(toLowerCase(a))
      bLower == trim(toLowerCase(b))
      aWords == splitWords(aLower, <<>>)
      bWords == splitWords(bLower, <<>>)
      matchedWords ==
        Cardinality({i \in 1..Len(aWords) :
                       \E j \in 1..Len(bWords) :
                          \/ includes(bWords[j], aWords[i])
                          \/ includes(aWords[i], bWords[j])})
  IN IF aLower = bLower THEN Score(1, 1)
     ELSE IF includes(aLower, bLower) \/ includes(bLower, aLower)
       THEN Score(9, 10)
     ELSE Score(matchedWords,
                IF Len(aWords) > Len(bWords) THEN Len(aWords) ELSE Len(bWords))

\* The options executeSelect considers: a value, and not disabled.
ValidOption(opt) == opt.value # <<>> /\ ~opt.disabled
ValidOptions(options) == SelectSeq(options, ValidOption)

\* Math.max(valueScore, textScore) for one option
OptionScore(value, opt) ==
  MaxScore(stringSimilarity(value, opt.value), stringSimilarity(value, opt.text))

\* The loop that lets a later option of equal score take the place of the best.
RECURSIVE BestFromLast(_, _, _, _, _)
BestFromLast(value, options, k, best, bestScore) ==
  IF k > Len(options) THEN [match |-> best, score |-> bestScore]
  ELSE IF /\ ~Greater(bestScore, OptionScore(value, options[k]))
          /\ OptionScore(value, options[k]).num > 0
    THEN BestFromLast(value, options, k + 1, k, OptionScore(value, options[k]))
    ELSE BestFromLast(value, options, k + 1, best, bestScore)

\* The loop over the options: best is the index of bestMatch (0 for null).
RECURSIVE BestFrom(_, _, _, _, _)
BestFrom(value, options, k, best, bestScore) ==
  IF k > Len(options) THEN [match |-> best, score |-> bestScore]
  ELSE IF Greater(OptionScore(value, options[k]), bestScore)
    THEN BestFrom(value, options, k + 1, k, OptionScore(value, options[k]))
    ELSE BestFrom(value, options, k + 1, best, bestScore)

BestMatch(value, options) == BestFrom(value, options, 1, 0, Score(0, 1))

\* options.slice(0, 5).map(o => o.text), and whether "..." follows
Listed(options) ==
  [i \in 1..(IF Len(options) < MaxListed THEN Len(options) ELSE MaxListed) |->
     options[i].text]

--------------------------------------------------------------------------
(* A step executor on its own: executeSelect and executeFindRow *)

\* The result a step executor has returned, or the exception it has raised:
\* status is "running", "returned", "threw" (a CancellationError) or
\* "raised" (another exception).  listed and more are the option texts of
\* the rejection message and its "...", detail the text a form error
\* carries.
NoStepResult == [status |-> "running", success |-> FALSE, fatal |-> FALSE,
                 error |-> "none", listed |-> <<>>, more |-> FALSE,
                 detail |-> <<>>]
StepSuccess == [NoStepResult EXCEPT !.status = "returned", !.success = TRUE]
StepFailure(err, isFatal) ==
  [NoStepResult EXCEPT !.status = "returned", !.error = err, !.fatal = isFatal]
StepCancelled == [NoStepResult EXCEPT !.status = "threw", !.error = "cancelled"]
\* An exception that is not a CancellationError leaves the executor.
StepRaised(err) == [NoStepResult EXCEPT !.status = "raised", !.error = err]

\* entities[fieldName]: undefined, or the string held under the key.
NoEntry == [defined |-> FALSE, text |-> <<>>]
Entry(s) == [defined |-> TRUE, text |-> s]

\* entities[fieldName] || step.value || ''
Resolve(given, entry) ==
  IF entry.defined /\ entry.text # <<>> THEN entry.text ELSE given

\* given is step.value and entry is entities[step.value]; desired is the
\* resolved value of the step (the value to type or select, the text of the
\* row); present tells the step's element is found; value is the value of
\* the select or of the field; options are those of the select; number and
\* settable tell the field is an input of type number, and an input or a
\* textarea at all; typed counts the characters the typing loop has written
\* and rewrites the corrective rewrites; errorSel tells the submit step
\* declares an error selector (waitFor: a success selector), okShown and
\* errShown that the success and the error element are on the page, errText
\* is the text of the error element and polls counts the polls of
\* waitForEither; page holds what the page offers to loadManifest, cache
\* is cachedManifest, loaded the manifest loadManifest returned and warned
\* tells it logged the warning of an unsupported version; selector, labels
\* and css are the argument of findElement and the page it looks at, found
\* is the element it returned;
\* looks are the outcomes of the calls of findMatchingRow, pauses the 1 s
\* waits, checks the cancellation checks that followed them; marks are the
\* elements carrying GHOST_CLASS.  confirm is the page's window.confirm: the
\* page's own handler ("page") or the accepting stub ("stub"); original is
\* originalConfirm of the call ("none" for null); timers are the pending
\* timers of the finally blocks, each with the handler it puts back and the
\* time left; wait is the time left of the await the executor is in; calls
\* counts the calls of the executor on the page.
NoFound == [id |-> "none", type |-> <<>>]
NoLoaded == [from |-> "none", schemaVersion |-> "absent"]
NoPage == [global |-> NoLoaded, script |-> NoLoaded, file |-> NoLoaded]
NoSolo == [kind |-> "none", pc |-> "idle", cancelled |-> FALSE,
           desired |-> <<>>, options |-> <<>>, value |-> <<>>,
           present |-> FALSE, action |-> "edit", waitFor |-> FALSE,
           looks |-> <<>>, pauses |-> 0, checks |-> 0, marks |-> {},
           clicked |-> FALSE, confirm |-> "page", original |-> "none",
           timers |-> <<>>, wait |-> 0, calls |-> 0,
           given |-> <<>>, entry |-> NoEntry, number |-> FALSE,
           settable |-> TRUE, typed |-> 0, rewrites |-> 0,
           errorSel |-> FALSE, okShown |-> FALSE, errShown |-> FALSE,
           first |-> "none", errText |-> <<>>, polls |-> 0,
           page |-> NoPage, cache |-> NoLoaded, loaded |-> NoLoaded,
           warned |-> FALSE, selector |-> <<>>, labels |-> <<>>,
           css |-> NoFound, found |-> NoFound,
           stored |-> NoState, held |-> NoState, pending |-> NoState,
           hasManifest |-> FALSE, lock |-> FALSE, delegated |-> FALSE,
           outcome |-> NoResult,
           token |-> [isCancelled |-> FALSE, onCancel |-> "none", invoked |-> 0],
           op |-> "none", raised |-> FALSE,
           box |-> FALSE, changes |-> 0,
           score |-> Score(0, 1),
           retryCount |-> 0, useFallback |-> FALSE, models |-> <<>>,
           statuses |-> <<>>, waited |-> <<>>, reply |-> "none",
           result |-> NoStepResult]

\* The number of lookups of the row: for (attempt = 0; attempt < 3; attempt++)
MaxAttempts == 3

\* The pages and values the executors are run against.
Option(v, t, d) == [value |-> v, text |-> t, disabled |-> d]
Plain(t) == Option(t, t, FALSE)

sGradeA == <<"G", "r", "a", "d", "e", " ", "A">>
sGradeB == <<"G", "r", "a", "d", "e", " ", "B">>
sGradeC == <<"G", "r", "a", "d", "e", " ", "C">>
sRed == <<"R", "e", "d">>
sBlue == <<"B", "l", "u", "e">>
sGreen == <<"G", "r", "e", "e", "n">>
sChoose == <<"C", "h", "o", "o", "s", "e">>
sLowerGradeA == <<"g", "r", "a", "d", "e", " ", "a">>
sXyz123 == <<"x", "y", "z", "1", "2", "3">>
\* part of every grade: each of them scores 0.9
sGrade == <<"g", "r", "a", "d", "e">>
sLowerBlue == <<" ", "b", "l", "u", "e", " ">>
sBlank == <<" ">>
sRedBlueGreen == sRed \o <<" ">> \o sBlue \o <<" ">> \o sGreen
\* three of five words match: 3/5
sThreeOfFive == <<"b", "l", "u", "e", " ", "r", "e", "d", " ",
                  "g", "r", "e", "e", "n", " ", "q", " ", "z">>
\* two of four words match: 2/4
sTwoOfFour == <<"b", "l", "u", "e", " ", "r", "e", "d", " ", "q", " ", "z">>

Grades == <<Plain(sGradeA), Plain(sGradeB), Plain(sGradeC)>>
GradesReversed == <<Plain(sGradeC), Plain(sGradeB), Plain(sGradeA)>>
Colours == <<Plain(sRed), Plain(sBlue), Plain(sGreen)>>
WithPlaceholder ==
  <<Option(<<>>, sChoose, FALSE), Option(<<"b">>, sBlue, TRUE),
    Option(<<"r">>, sRed, FALSE), Option(<<"g">>, sGreen, FALSE)>>
SixOptions == Colours \o Grades
Phrase == <<Plain(sChoose), Plain(sRedBlueGreen)>>
NothingToChoose == <<Option(<<>>, sChoose, FALSE), Option(<<"b">>, sBlue, TRUE)>>

Menus == {Grades, GradesReversed, Colours, WithPlaceholder, SixOptions, Phrase,
          NothingToChoose, <<>>}
DesiredValues == {sLowerGradeA, sXyz123, sLowerBlue, sBlank, sThreeOfFive,
                  sTwoOfFour, sGrade, <<>>}
RowActions == {"edit", "delete"}

\* step.value and the entry of the entities under it: a literal (no entity
\* of that name), a key with its value, a key whose entry is empty, and a
\* key that has no entry.
sKey == <<"n", "a", "m", "e">>
sAbc == <<"a", "b", "c">>
s42 == <<"4", "2">>
FillBindings ==
  {[given |-> d, entry |-> NoEntry] : d \in {sAbc, s42, <<>>}}
    \cup {[given |-> sKey, entry |-> Entry(d)] : d \in {sAbc, <<>>}}
    \cup {[given |-> sKey, entry |-> NoEntry]}
\* The element a fill step names: missing, a text input or a textarea, an
\* input of type number, or an element of another kind.
Fields ==
  {[present |-> FALSE, number |-> FALSE, settable |-> TRUE],
   [present |-> TRUE, number |-> FALSE, settable |-> TRUE],
   [present |-> TRUE, number |-> TRUE, settable |-> TRUE],
   [present |-> TRUE, number |-> FALSE, settable |-> FALSE]}
Bindings ==
  {[given |-> d, entry |-> NoEntry] : d \in DesiredValues}
    \cup {[given |-> sKey, entry |-> Entry(d)] : d \in {sLowerGradeA, sXyz123, <<>>}}
    \cup {[given |-> sKey, entry |-> NoEntry]}

--------------------------------------------------------------------------
(* Construction: a page has just loaded and initialize() has been called *)

Init ==
  /\ slot = NoState
  /\ isExecuting = FALSE
  /\ engToken = NoToken
  /\ idxToken = NoToken
  /\ resumeInProgress = FALSE
  /\ manifest = FALSE
  /\ navPending = FALSE
  /\ cancelled = {}
  /\ planned \in StepSeqs
  /\ ghostMarks = {}
  /\ tk = [t \in Task |-> IF t = "init" THEN [IdleTask EXCEPT !.pc = "init_manifest"]
                                       ELSE IdleTask]
  /\ execs = 0
  /\ returned = NoReturn
  /\ reached = [id \in PlanIds |-> 0]
  /\ solo = NoSolo

--------------------------------------------------------------------------
(* content/index.ts *)

\* initialize(): loadManifest() has answered; the page carries a manifest or not.
InitManifest ==
  /\ ~Busy
  /\ tk["init"].pc = "init_manifest"
  /\ \E m \in BOOLEAN : manifest' = m
  /\ tk' = [tk EXCEPT !["init"].pc = IF resumeInProgress THEN "idle" ELSE "chk_load"]
  /\ UNCHANGED <<returned, slot, isExecuting, engToken, idxToken, resumeInProgress,
                 navPending, cancelled, planned, solo, reached, execs, ghostMarks>>

\* createCancellationToken(); resumeExecution(state, ..., token): the head of
\* resumeExecution and of executeFromStep, up to the first await.  The caller
\* has found the manifest, so getManifest() finds it too.
ResumeStart(t, state) ==
  IF LockHeld
    THEN /\ tk' = [tk EXCEPT ![t] = IdleTask]
         /\ returned' = [by |-> t, res |-> AlreadyInProgress(state.plan)]
         /\ idxToken' = NoToken
         /\ resumeInProgress' = FALSE
         /\ UNCHANGED <<isExecuting, engToken, cancelled>>
    ELSE /\ isExecuting' = TRUE
         /\ engToken' = t
         /\ idxToken' = t
         /\ cancelled' = cancelled \ {t}
         /\ resumeInProgress' = TRUE
         /\ tk' = [tk EXCEPT ![t] = RunTask(t, "resume", state.plan, state)]
         /\ returned' = NoReturn

\* checkPendingExecution(): loadExecutionState() has answered.
CheckLoad(t) ==
  /\ ~Busy
  /\ t \in Resumer
  /\ tk[t].pc = "chk_load"
  /\ tk' = [tk EXCEPT ![t] = IF IsPending(slot)
                               THEN [@ EXCEPT !.pc = "chk_clear", !.pend = slot]
                               ELSE IdleTask]
  /\ UNCHANGED <<returned, slot, isExecuting, engToken, idxToken, resumeInProgress, manifest,
                 navPending, cancelled, planned, solo, reached, execs, ghostMarks>>

\* checkPendingExecution(): clearExecutionState() has answered and the state is
\* returned to initialize, which starts its 800 ms settling delay.
CheckClearInit ==
  /\ ~Busy
  /\ tk["init"].pc = "chk_clear"
  /\ slot' = ClearedSlot
  /\ IF ~manifest
       THEN /\ tk' = [tk EXCEPT !["init"] = IdleTask]
            /\ UNCHANGED resumeInProgress
       ELSE /\ tk' = [tk EXCEPT !["init"].pc = "settle"]
            /\ resumeInProgress' = TRUE
  /\ UNCHANGED <<returned, isExecuting, engToken, idxToken, manifest, navPending,
                 cancelled, planned, solo, execs, ghostMarks>>
  /\ reached' = Kept

\* initialize(): the settling delay is over, the plan is resumed.
InitResume ==
  /\ ~Busy
  /\ tk["init"].pc = "settle"
  /\ ResumeStart("init", tk["init"].pend)
  /\ UNCHANGED <<slot, manifest, navPending, planned, solo, execs, ghostMarks>>
  /\ reached' = Kept

\* checkPendingExecution() returns the state to checkUrlChange, which resumes
\* the plan at once.
CheckClearPoll ==
  /\ ~Busy
  /\ tk["poll"].pc = "chk_clear"
  /\ slot' = ClearedSlot
  /\ IF ~manifest
       THEN /\ tk' = [tk EXCEPT !["poll"] = IdleTask]
            /\ UNCHANGED <<returned, isExecuting, engToken, idxToken, resumeInProgress,
                           cancelled>>
       ELSE ResumeStart("poll", tk["poll"].pend)
  /\ UNCHANGED <<manifest, navPending, planned, solo, execs, ghostMarks>>
  /\ reached' = Kept

\* The page's URL changes without a new document (the route change a
\* navigation click causes in a single-page app, or the client-side redirect of
\* a page that loads while a hand-off is pending), and the next 300 ms tick of
\* checkUrlChange sees it and starts its 1 s wait.  A change seen while an
\* earlier checkUrlChange is still in flight is left out.
UrlChange ==
  /\ ~Busy
  /\ navPending \/ (tk["init"].pc = "init_manifest" /\ slot # NoState)
  /\ tk["poll"].pc = "idle"
  /\ navPending' = FALSE
  /\ tk' = [tk EXCEPT !["poll"].pc = IF resumeInProgress THEN "idle" ELSE "poll_wait"]
  /\ UNCHANGED <<returned, slot, isExecuting, engToken, idxToken, resumeInProgress, manifest,
                 cancelled, planned, solo, reached, execs, ghostMarks>>

\* checkUrlChange(): the wait is over; re-check the guard, then look for a state.
PollWake ==
  /\ ~Busy
  /\ tk["poll"].pc = "poll_wait"
  /\ tk' = [tk EXCEPT !["poll"].pc = IF resumeInProgress THEN "idle" ELSE "chk_load"]
  /\ UNCHANGED <<returned, slot, isExecuting, engToken, idxToken, resumeInProgress, manifest,
                 navPending, cancelled, planned, solo, reached, execs, ghostMarks>>

\* handleMessage EXECUTE_PLAN, up to the first await inside executeFromStep.
\* One EXECUTE_PLAN handler is in flight at a time.  The plan of the message
\* carries any cursor and status.
ExecutePlan ==
  /\ ~Busy
  /\ \E cursor \in 0..Len(planned), status \in PlanStatus :
     LET given == [id |-> execs + 1, steps |-> planned, currentStep |-> cursor,
                   status |-> status, stopped |-> FALSE, noted |-> 0]
         plan == Prepared(given)
     IN IF ~manifest
          THEN /\ returned' = [by |-> "msg", res |-> NoManifestResult]
               /\ idxToken' = NoToken
               /\ UNCHANGED <<isExecuting, engToken, cancelled, tk, execs>>
          ELSE IF LockHeld
            THEN /\ returned' = [by |-> "msg", res |-> AlreadyInProgress(plan)]
                 /\ idxToken' = NoToken
                 /\ UNCHANGED <<isExecuting, engToken, cancelled, tk, execs>>
            ELSE /\ tk["msg"].pc = "idle"
                 /\ execs < MaxExecs
                 /\ execs' = execs + 1
                 /\ isExecuting' = TRUE
                 /\ engToken' = "msg"
                 /\ idxToken' = "msg"
                 /\ cancelled' = cancelled \ {"msg"}
                 /\ tk' = [tk EXCEPT !["msg"] = RunTask("msg", "exec", plan, NoState)]
                 /\ returned' = NoReturn
  /\ UNCHANGED <<slot, resumeInProgress, manifest, navPending, planned, solo, reached,
                 ghostMarks>>

\* cancelActiveExecution()
CancelActive == IF engToken # NoToken THEN cancelled \cup {engToken} ELSE cancelled

\* History: the plan is marked as one a successful CANCEL_EXECUTION was about.
Stop(plan) == IF plan = NoPlan THEN plan ELSE [plan EXCEPT !.stopped = TRUE]

\* handleMessage CANCEL_EXECUTION: SUCCESS when the host holds a token, ERROR
\* otherwise.
CancelExecution ==
  /\ ~Busy
  /\ IF idxToken # NoToken
       THEN /\ cancelled' = CancelActive
            /\ idxToken' = NoToken
            /\ slot' = [plan |-> Stop(slot.plan)]
            /\ tk' = [t \in Task |-> IF Active(t)
                                       THEN [tk[t] EXCEPT !.plan = Stop(@)]
                                       ELSE tk[t]]
       ELSE UNCHANGED <<cancelled, idxToken, slot, tk>>
  /\ UNCHANGED <<returned, isExecuting, engToken, resumeInProgress, manifest, navPending,
                 planned, solo, reached, execs, ghostMarks>>

\* The navigation click loads a new document: this context is destroyed and the
\* content script starts again in the new page.
Reload ==
  /\ ~Busy
  /\ navPending
  /\ isExecuting' = FALSE
  /\ engToken' = NoToken
  /\ idxToken' = NoToken
  /\ resumeInProgress' = FALSE
  /\ manifest' = FALSE
  /\ navPending' = FALSE
  /\ cancelled' = {}
  /\ ghostMarks' = {}
  /\ tk' = [t \in Task |-> IF t = "init" THEN [IdleTask EXCEPT !.pc = "init_manifest"]
                                        ELSE IdleTask]
  /\ returned' = NoReturn
  /\ UNCHANGED <<slot, planned, solo, execs>>
  /\ reached' = Kept

--------------------------------------------------------------------------
(* content/ghostNavigator.ts: executeFromStep and the step executors *)

\* Variables no step executor touches.
hostVars == <<idxToken, resumeInProgress, manifest, planned, execs, returned,
              solo>>

\* getStepMessage(step)
getStepMessage(step) ==
  CASE step.type = "navigate" -> "Navigating to target..."
    [] step.type = "fill" -> "Filling field..."
    [] step.type = "submit" -> "Submitting..."
    [] OTHER -> "Processing..."

\* The arguments of onProgress?.(currentStep + 1, plan.steps.length,
\* getStepMessage(step)) for the step activity t is about to run.
ProgressCall(t) ==
  [step |-> tk[t].cur + 1, total |-> Len(tk[t].plan.steps),
   message |-> getStepMessage(tk[t].plan.steps[tk[t].cur + 1])]

\* History: the highest position the observers of the plan have been given.
Observed(t) ==
  [reached EXCEPT ![tk[t].plan.id] =
     IF ProgressCall(t).step > @ THEN ProgressCall(t).step ELSE @]

\* The loop has called onProgress and then executeStep; rec is the activity
\* at the first await of the step, or after a step that ends without one.
Begun(rec) ==
  [rec EXCEPT !.begun = @ + 1, !.calls = @ + 1, !.nav = NoNav,
              !.last = IF rec.pc \in StepPcs THEN "none" ELSE @]

\* A path is the sequence of its segments; a segment of a route path that
\* starts with ':' is a parameter.
Params == {":id"}
NavRoute(name, path) == [name |-> name, path |-> path]

\* manifest.navigation in the order of Object.entries: a parameterised route
\* declared before a fixed one it covers, and the root.
Navigation ==
  <<NavRoute("user", <<"users", ":id">>),
    NavRoute("new_user", <<"users", "new">>),
    NavRoute("home", <<>>)>>
RouteNames == {Navigation[k].name : k \in 1..Len(Navigation)}

\* window.location.pathname
Locations == {<<>>, <<"users", "new">>, <<"users", "7">>, <<"about">>}

\* new RegExp('^' + pattern + '$').test(currentPath), every ':name' of the
\* route path replaced by [^/]+
PatternTest(path, currentPath) ==
  /\ Len(path) = Len(currentPath)
  /\ \A i \in 1..Len(path) : path[i] \in Params \/ path[i] = currentPath[i]

\* The test getCurrentRoute makes of one route.
OnPath(path, currentPath) ==
  \/ path = currentPath
  \/ /\ \E i \in 1..Len(path) : path[i] \in Params
     /\ PatternTest(path, currentPath)

\* getCurrentRoute: the name of the first route whose path fits, or null.
getCurrentRoute(navigation, currentPath) ==
  LET fits == {k \in 1..Len(navigation) : OnPath(navigation[k].path, currentPath)}
  IN IF fits = {} THEN "none"
     ELSE navigation[CHOOSE k \in fits : \A j \in fits : k <= j].name

\* The comparison that never finds the page on the target route.
SameRouteNever(currentRoute, routeName) == FALSE

\* currentRoute === routeName
SameRoute(currentRoute, routeName) == currentRoute = routeName

\* executeNavigate up to its first await: the route is the current one (no-op),
\* its nav element is not in the page (failure), or the nav element is marked.
NavigateBegin(t) ==
  \E routeName \in RouteNames, currentPath \in Locations, navElement \in BOOLEAN :
    LET currentRoute == getCurrentRoute(Navigation, currentPath)
        compared == IF currentRoute = routeName THEN "current" ELSE "other"
    IN IF SameRoute(currentRoute, routeName)
         THEN /\ tk' = [tk EXCEPT ![t] = [Begun(StepOk(t)) EXCEPT !.nav = compared]]
              /\ UNCHANGED ghostMarks
         ELSE IF ~navElement
           THEN /\ tk' = [tk EXCEPT ![t] =
                          [Begun(StepFail(t, "Navigation element not found", FALSE))
                             EXCEPT !.nav = compared]]
                /\ UNCHANGED ghostMarks
           ELSE /\ tk' = [tk EXCEPT ![t] =
                          [Begun([tk[t] EXCEPT !.pc = "nav_marked"])
                             EXCEPT !.nav = compared]]
                /\ ghostMarks' = ghostMarks \cup {tk[t].cur}

\* executeFill up to the await in waitForElement; a step without a value fails
\* at once, fatally.
FillBegin(t) ==
  /\ \E hasValue \in BOOLEAN :
       tk' = [tk EXCEPT ![t] =
                IF hasValue
                  THEN Begun([tk[t] EXCEPT !.pc = "fill_locate"])
                  ELSE Begun(StepFail(t, "No value provided for field", TRUE))]
  /\ UNCHANGED ghostMarks

\* executeSubmit up to the await in waitForElement.
SubmitBegin(t) ==
  /\ tk' = [tk EXCEPT ![t] = Begun([tk[t] EXCEPT !.pc = "submit_locate"])]
  /\ UNCHANGED ghostMarks

\* The head of the while loop: the cancellation check, then executeStep and the
\* executor of the step up to its first await.
LoopTop(t) ==
  /\ tk[t].pc = "loop"
  /\ IF tk[t].cur >= Len(tk[t].plan.steps)
       THEN /\ tk' = [tk EXCEPT ![t].pc = "finish"]
            /\ UNCHANGED <<isExecuting, ghostMarks, reached>>
       ELSE IF IsCancelled(tk[t].token)
         THEN \* thrown outside the inner try: the outer catch releases the lock
              /\ tk' = [tk EXCEPT ![t].pc = "cancel_out"]
              /\ isExecuting' = FALSE
              /\ UNCHANGED <<ghostMarks, reached>>
         ELSE /\ UNCHANGED isExecuting
              /\ reached' = Observed(t)
              /\ CASE tk[t].plan.steps[tk[t].cur + 1].type = "navigate" ->
                        NavigateBegin(t)
                   [] tk[t].plan.steps[tk[t].cur + 1].type = "fill" ->
                        FillBegin(t)
                   [] tk[t].plan.steps[tk[t].cur + 1].type = "submit" ->
                        SubmitBegin(t)
  /\ UNCHANGED <<slot, engToken, navPending, cancelled>>
  /\ UNCHANGED hostVars

\* executeNavigate after wait(ACTION_DELAY): the cancellation check, then the click.
NavAct(t) ==
  /\ ~Busy
  /\ tk[t].pc = "nav_marked"
  /\ IF IsCancelled(tk[t].token)
       THEN /\ tk' = [tk EXCEPT ![t] = StepThrow(t)]
            /\ UNCHANGED navPending
       ELSE /\ tk' = [tk EXCEPT ![t].pc = "nav_clicked"]
            /\ navPending' = TRUE
  /\ UNCHANGED <<slot, isExecuting, engToken, cancelled, ghostMarks>>
  /\ UNCHANGED <<hostVars, reached>>

\* executeNavigate after wait(100): the marker is removed and needsNavigation
\* returned; executeFromStep advances the plan and calls saveExecutionState.
NavDone(t) ==
  /\ ~Busy
  /\ tk[t].pc = "nav_clicked"
  /\ ghostMarks' = ghostMarks \ {tk[t].cur}
  /\ tk' = [tk EXCEPT ![t].pc = "saving",
                      ![t].plan = SavedState(tk[t].plan, tk[t].cur).plan]
  /\ UNCHANGED <<slot, isExecuting, engToken, navPending, cancelled>>
  /\ UNCHANGED <<hostVars, reached>>

\* saveExecutionState has answered: the token is dropped, the lock released and
\* the navigating result returned.
SaveDone(t) ==
  /\ ~Busy
  /\ tk[t].pc = "saving"
  /\ slot' = [plan |-> tk[t].plan]
  /\ engToken' = NoToken
  /\ isExecuting' = FALSE
  /\ Return(t, NavigatingResult(tk[t].plan, tk[t].cur))
  /\ UNCHANGED <<manifest, navPending, planned, solo, reached, execs, ghostMarks>>

\* waitForElement(selector, 5000) of a fill or submit step has answered; err and
\* fatal are the failure the executor returns for a missing element.
Locate(t, at, marked, err, fatal) ==
  /\ ~Busy
  /\ tk[t].pc = at
  /\ \E found \in BOOLEAN :
       IF ~found
         THEN /\ tk' = [tk EXCEPT ![t] = StepFail(t, err, fatal)]
              /\ UNCHANGED ghostMarks
         ELSE IF IsCancelled(tk[t].token)
           THEN /\ tk' = [tk EXCEPT ![t] = StepThrow(t)]
                /\ UNCHANGED ghostMarks
           ELSE /\ tk' = [tk EXCEPT ![t].pc = marked]
                /\ ghostMarks' = ghostMarks \cup {tk[t].cur}
  /\ UNCHANGED <<slot, isExecuting, engToken, navPending, cancelled>>
  /\ UNCHANGED <<hostVars, reached>>

\* The cancellation check after wait(ACTION_DELAY), then element.click().
Act(t, at, clicked) ==
  /\ ~Busy
  /\ tk[t].pc = at
  /\ tk' = [tk EXCEPT ![t] = IF IsCancelled(tk[t].token)
                               THEN StepThrow(t)
                               ELSE [tk[t] EXCEPT !.pc = clicked]]
  /\ UNCHANGED <<slot, isExecuting, engToken, navPending, cancelled, ghostMarks>>
  /\ UNCHANGED <<hostVars, reached>>

FillLocate(t) == Locate(t, "fill_locate", "fill_typing", "Element not found", TRUE)

\* executeFill: the element found is not an input or a textarea, so the native
\* value setter throws a TypeError when it is called on it.  The element was
\* marked before the call and stays marked.
FillRaise(t) ==
  /\ ~Busy
  /\ tk[t].pc = "fill_locate"
  /\ ~IsCancelled(tk[t].token)
  /\ tk' = [tk EXCEPT ![t] = StepRaise(t, "Illegal invocation")]
  /\ ghostMarks' = ghostMarks \cup {tk[t].cur}
  /\ UNCHANGED <<slot, isExecuting, engToken, navPending, cancelled>>
  /\ UNCHANGED <<hostVars, reached>>

\* executeFill: one turn of the typing loop (check, write one character, wait),
\* or after the last character the check, the change event and the blur.
FillType(t) ==
  /\ ~Busy
  /\ tk[t].pc = "fill_typing"
  /\ tk' = [tk EXCEPT ![t] =
              IF IsCancelled(tk[t].token) THEN StepThrow(t)
              ELSE IF tk[t].i < ValueLen THEN [tk[t] EXCEPT !.i = @ + 1]
              ELSE [tk[t] EXCEPT !.pc = "fill_verify"]]
  /\ UNCHANGED <<slot, isExecuting, engToken, navPending, cancelled, ghostMarks>>
  /\ UNCHANGED <<hostVars, reached>>

\* executeFill: the verification (with its single corrective rewrite), the
\* last wait and the removal of the marker.
FillDone(t) ==
  /\ ~Busy
  /\ tk[t].pc = "fill_verify"
  /\ ghostMarks' = ghostMarks \ {tk[t].cur}
  /\ tk' = [tk EXCEPT ![t] = StepOk(t)]
  /\ UNCHANGED <<slot, isExecuting, engToken, navPending, cancelled>>
  /\ UNCHANGED <<hostVars, reached>>

SubmitLocate(t) == Locate(t, "submit_locate", "submit_marked", "Submit button not found", FALSE)
SubmitAct(t) == Act(t, "submit_marked", "submit_clicked")

\* executeSubmit after the click: the marker is removed, then waitForEither.
SubmitDone(t) ==
  /\ ~Busy
  /\ tk[t].pc = "submit_clicked"
  /\ ghostMarks' = ghostMarks \ {tk[t].cur}
  /\ \E o \in {"success", "error", "timeout"} :
       tk' = [tk EXCEPT ![t] =
                CASE o = "success" -> StepOk(t)
                  [] o = "error" -> StepFail(t, "Form error", TRUE)
                  [] o = "timeout" -> StepFail(t, "Submission timed out", FALSE)]
  /\ UNCHANGED <<slot, isExecuting, engToken, navPending, cancelled>>
  /\ UNCHANGED <<hostVars, reached>>

\* "Execution complete": clearExecutionState has answered.
Finish(t) ==
  /\ ~Busy
  /\ tk[t].pc = "finish"
  /\ slot' = ClearedSlot
  /\ engToken' = NoToken
  /\ isExecuting' = FALSE
  /\ Return(t, CompletedResult(tk[t].plan, tk[t].cur, tk[t].errors))
  /\ UNCHANGED <<manifest, navPending, planned, solo, execs, ghostMarks>>
  /\ reached' = Kept

\* The lock after the inner catch has handled a CancellationError.
LockAfterInnerCancel == isExecuting

\* The inner catch: clearExecutionState has answered, the markers are cleared.
CancelIn(t) ==
  /\ ~Busy
  /\ tk[t].pc = "cancel_in"
  /\ slot' = ClearedSlot
  /\ ghostMarks' = {}
  /\ engToken' = NoToken
  /\ isExecuting' = LockAfterInnerCancel
  /\ Return(t, CancelledResult(tk[t].plan, tk[t].cur))
  /\ UNCHANGED <<manifest, navPending, planned, solo, execs>>
  /\ reached' = Kept

\* The outer catch: the lock was released when the error was caught.
CancelOut(t) ==
  /\ ~Busy
  /\ tk[t].pc = "cancel_out"
  /\ slot' = ClearedSlot
  /\ ghostMarks' = {}
  /\ engToken' = NoToken
  /\ Return(t, CancelledResult(tk[t].plan, tk[t].cur))
  /\ UNCHANGED <<isExecuting, manifest, navPending, planned, solo, execs>>
  /\ reached' = Kept

--------------------------------------------------------------------------

Next ==
  \/ InitManifest
  \/ \E t \in Resumer : CheckLoad(t)
  \/ CheckClearInit
  \/ InitResume
  \/ CheckClearPoll
  \/ UrlChange
  \/ PollWake
  \/ ExecutePlan
  \/ CancelExecution
  \/ Reload
  \/ \E t \in Task : LoopTop(t)
  \/ \E t \in Task : NavAct(t)
  \/ \E t \in Task : NavDone(t)
  \/ \E t \in Task : SaveDone(t)
  \/ \E t \in Task : FillLocate(t)
  \/ \E t \in Task : FillRaise(t)
  \/ \E t \in Task : FillType(t)
  \/ \E t \in Task : FillDone(t)
  \/ \E t \in Task : SubmitLocate(t)
  \/ \E t \in Task : SubmitAct(t)
  \/ \E t \in Task : SubmitDone(t)
  \/ \E t \in Task : Finish(t)
  \/ \E t \in Task : CancelIn(t)
  \/ \E t \in Task : CancelOut(t)

Spec == Init /\ [][Next]_vars

--------------------------------------------------------------------------
(* content/ghostNavigator.ts: executeSelect and executeFindRow on their own *)

engineVars == <<slot, isExecuting, engToken, idxToken, resumeInProgress,
                manifest, navPending, cancelled, planned, ghostMarks, tk,
                execs, returned, reached>>

Returned(res) == [solo EXCEPT !.pc = "done", !.result = res]
\* cancellationToken.throwIfCancelled() found the token cancelled.
Threw == [solo EXCEPT !.pc = "done", !.result = StepCancelled]

\* CancellationToken.cancel() while the executor runs.
SoloCancel ==
  /\ solo.kind # "none"
  /\ solo.result.status = "running"
  /\ ~solo.cancelled
  /\ solo' = [solo EXCEPT !.cancelled = TRUE]
  /\ UNCHANGED engineVars

\* executeSelect up to waitForElement; the step names its select element.
SelectBegin ==
  /\ solo.pc = "sel_start"
  /\ LET value == Resolve(solo.given, solo.entry)
     IN solo' = IF solo.cancelled THEN Threw
                ELSE IF value = <<>>
                  THEN Returned(StepFailure("No value provided for selection", TRUE))
                ELSE [solo EXCEPT !.desired = value, !.pc = "sel_wait"]
  /\ UNCHANGED engineVars

\* executeSelect from the answer of waitForElement to wait(ACTION_DELAY)
SelectMatch ==
  /\ solo.pc = "sel_wait"
  /\ LET options == ValidOptions(solo.options)
         best == BestMatch(solo.desired, options)
     IN solo' =
          IF ~solo.present
            THEN Returned(StepFailure("Element not found", TRUE))
          ELSE IF solo.cancelled THEN Threw
          ELSE IF Len(options) = 0
            THEN Returned(StepFailure("No options available in dropdown", TRUE))
          ELSE IF best.match # 0 /\ Accepted(best.score)
            THEN [solo EXCEPT !.value = options[best.match].value,
                              !.marks = {"element"},
                              !.pc = "sel_delay"]
          ELSE Returned([StepFailure("No match", TRUE) EXCEPT
                           !.listed = Listed(options),
                           !.more = Len(options) > MaxListed])
  /\ UNCHANGED engineVars

\* executeSelect after wait(ACTION_DELAY)
SelectDone ==
  /\ solo.pc = "sel_delay"
  /\ solo' = [Returned(StepSuccess) EXCEPT !.marks = {}]
  /\ UNCHANGED engineVars

\* setInputValue(element, currentValue + char) and the input event of one
\* turn of the typing loop: the page keeps the character, or its handler
\* puts the former content back.
TypeChar(kept) ==
  [solo EXCEPT !.value = IF kept THEN Append(@, solo.desired[solo.typed + 1]) ELSE @,
               !.typed = @ + 1]

\* executeFill up to waitForElement; the step names its field.
FlBegin ==
  /\ solo.pc = "fl_start"
  /\ LET value == Resolve(solo.given, solo.entry)
     IN solo' = IF solo.cancelled THEN Threw
                ELSE IF value = <<>>
                  THEN Returned(StepFailure("No value provided for field", TRUE))
                ELSE [solo EXCEPT !.desired = value, !.pc = "fl_wait"]
  /\ UNCHANGED engineVars

\* executeFill from the answer of waitForElement: the check, the mark, and
\* the whole value at once for a number input, else the clearing of the
\* field and the first turn of the typing loop.  The native setter throws a
\* TypeError on an element that is neither an input nor a textarea.
FlLocate ==
  /\ solo.pc = "fl_wait"
  /\ \E kept \in BOOLEAN :
       solo' =
         IF ~solo.present THEN Returned(StepFailure("Element not found", TRUE))
         ELSE IF solo.cancelled THEN Threw
         ELSE IF ~solo.settable
           THEN [solo EXCEPT !.marks = {"element"}, !.pc = "done",
                             !.result = StepRaised("Illegal invocation")]
         ELSE IF solo.number
           THEN [solo EXCEPT !.marks = {"element"},
                             !.value = IF kept THEN solo.desired ELSE @,
                             !.pc = "fl_number"]
         ELSE [TypeChar(kept) EXCEPT
                 !.marks = {"element"},
                 !.value = IF kept THEN <<solo.desired[1]>> ELSE <<>>,
                 !.pc = "fl_typing"]
  /\ UNCHANGED engineVars

\* A typing loop that looks at the token only once the loop is over.
FlTypeUnchecked ==
  /\ solo.pc = "fl_typing"
  /\ \E kept \in BOOLEAN :
       solo' = IF solo.typed < Len(solo.desired) THEN TypeChar(kept)
               ELSE IF solo.cancelled THEN Threw
               ELSE [solo EXCEPT !.pc = "fl_verify"]
  /\ UNCHANGED engineVars

\* executeFill after wait(TYPING_DELAY): the next turn of the typing loop
\* (the check, one character), or after the last character the check, the
\* change event and the blur
FlType ==
  /\ solo.pc = "fl_typing"
  /\ \E kept \in BOOLEAN :
       solo' = IF solo.cancelled THEN Threw
               ELSE IF solo.typed < Len(solo.desired) THEN TypeChar(kept)
               ELSE [solo EXCEPT !.pc = "fl_verify"]
  /\ UNCHANGED engineVars

\* executeFill after wait(TYPING_DELAY * 3) for a number input: the check,
\* the change event and the blur
FlNumber ==
  /\ solo.pc = "fl_number"
  /\ solo' = IF solo.cancelled THEN Threw ELSE [solo EXCEPT !.pc = "fl_verify"]
  /\ UNCHANGED engineVars

\* executeFill after wait(50): the field is compared with the value and
\* rewritten once when it differs
FlVerify ==
  /\ solo.pc = "fl_verify"
  /\ \E kept \in BOOLEAN :
       solo' = IF solo.value # solo.desired
                 THEN [solo EXCEPT !.value = IF kept THEN solo.desired ELSE @,
                                   !.rewrites = @ + 1,
                                   !.pc = "fl_settle"]
               ELSE [solo EXCEPT !.pc = "fl_settle"]
  /\ UNCHANGED engineVars

\* executeFill after wait(ACTION_DELAY): the mark is removed
FlDone ==
  /\ solo.pc = "fl_settle"
  /\ solo' = [Returned(StepSuccess) EXCEPT !.marks = {}]
  /\ UNCHANGED engineVars

\* Time is counted in units of 100 ms.
\* The timeout of waitForEither(step.waitFor, step.errorSelector, 10000)
SubmitTimeout == 100
\* await wait(100) between two polls of waitForEither
PollInterval == 1

\* The success element or the error element the step declares appears on
\* the page; first remembers which of the two was there first.
SbPageSuccess ==
  /\ solo.kind = "submit"
  /\ solo.pc # "done"
  /\ solo.waitFor
  /\ ~solo.okShown
  /\ solo' = [solo EXCEPT !.okShown = TRUE,
                          !.first = IF @ = "none" THEN "success" ELSE @]
  /\ UNCHANGED engineVars

SbPageError ==
  /\ solo.kind = "submit"
  /\ solo.pc # "done"
  /\ solo.errorSel
  /\ ~solo.errShown
  /\ solo' = [solo EXCEPT !.errShown = TRUE,
                          !.first = IF @ = "none" THEN "error" ELSE @]
  /\ UNCHANGED engineVars

\* executeSubmit up to waitForElement; the step names its submit control.
SbBegin ==
  /\ solo.pc = "sb_start"
  /\ solo' = IF solo.cancelled THEN Threw ELSE [solo EXCEPT !.pc = "sb_wait"]
  /\ UNCHANGED engineVars

\* executeSubmit from the answer of waitForElement to wait(ACTION_DELAY)
SbLocate ==
  /\ solo.pc = "sb_wait"
  /\ solo' = IF ~solo.present
               THEN Returned(StepFailure("Submit button not found", FALSE))
             ELSE IF solo.cancelled THEN Threw
             ELSE [solo EXCEPT !.marks = {"element"}, !.pc = "sb_marked"]
  /\ UNCHANGED engineVars

\* executeSubmit after wait(ACTION_DELAY): the check and the click
SbClick ==
  /\ solo.pc = "sb_marked"
  /\ solo' = IF solo.cancelled THEN Threw
             ELSE [solo EXCEPT !.clicked = TRUE, !.pc = "sb_clicked"]
  /\ UNCHANGED engineVars

\* `Form error: ${result.element?.textContent?.trim() || 'Unknown error'}`
sUnknownError == <<"U", "n", "k", "n", "o", "w", "n", " ", "e", "r", "r", "o", "r">>
FormError ==
  [StepFailure("Form error", TRUE) EXCEPT
     !.detail = IF trim(solo.errText) = <<>> THEN sUnknownError
                ELSE trim(solo.errText)]

\* A poll that looks for the error element before the success element.
PollErrorFirst(s) ==
  IF s.errorSel /\ s.errShown
    THEN [s EXCEPT !.polls = @ + 1, !.pc = "done", !.result = FormError]
  ELSE IF s.waitFor /\ s.okShown
    THEN [s EXCEPT !.polls = @ + 1, !.pc = "done", !.result = StepSuccess]
  ELSE [s EXCEPT !.polls = @ + 1, !.pc = "sb_poll"]

\* One turn of the loop of waitForEither: the success element, then the
\* error element, then wait(100)
Poll(s) ==
  IF s.waitFor /\ s.okShown
    THEN [s EXCEPT !.polls = @ + 1, !.pc = "done", !.result = StepSuccess]
  ELSE IF s.errorSel /\ s.errShown
    THEN [s EXCEPT !.polls = @ + 1, !.pc = "done", !.result = FormError]
  ELSE [s EXCEPT !.polls = @ + 1, !.pc = "sb_poll"]

\* executeSubmit after the click and wait(ACTION_DELAY): the mark is removed
\* and, when the step declares a selector, waitForEither makes its first poll
SbAfter ==
  /\ solo.pc = "sb_clicked"
  /\ solo' = IF solo.waitFor \/ solo.errorSel
               THEN Poll([solo EXCEPT !.marks = {}])
             ELSE [Returned(StepSuccess) EXCEPT !.marks = {}]
  /\ UNCHANGED engineVars

\* The variant in which a wait that times out counts as a success.
SbPollLenient ==
  /\ solo.pc = "sb_poll"
  /\ solo' = IF solo.polls * PollInterval < SubmitTimeout THEN Poll(solo)
             ELSE Returned(StepSuccess)
  /\ UNCHANGED engineVars

\* waitForEither after wait(100): the next poll, or the timeout once
\* Date.now() - startTime has reached 10000
SbPoll ==
  /\ solo.pc = "sb_poll"
  /\ solo' = IF solo.polls * PollInterval < SubmitTimeout THEN Poll(solo)
             ELSE Returned(StepFailure("Submission timed out", FALSE))
  /\ UNCHANGED engineVars

\* wait(500) before the first lookup
SettleWait == 5
\* wait(1000) after a failed lookup
RetryWait == 10
\* wait(ACTION_DELAY)
ActionDelay == 3
\* The delay of the timer that puts window.confirm back.
RestoreDelay == 20
\* The timeout of waitForElement(step.waitFor, 5000)
FollowTimeout == 50

\* The length of the await a segment ends with; between two calls of the
\* executor any time may pass, so every timer may fire there.
WaitAt(pc) ==
  CASE pc = "fr_settle" -> SettleWait
    [] pc = "fr_pause" -> RetryWait
    [] pc \in {"fr_marked", "fr_button", "fr_clicked"} -> ActionDelay
    [] pc = "done" -> RestoreDelay
    [] OTHER -> 0

\* A pending timer fires before the await of the executor is over.
Due == \E i \in 1..Len(solo.timers) : solo.timers[i].left <= solo.wait

\* The pending timers once the await of the executor is over.
Aged == [i \in 1..Len(solo.timers) |->
           [solo.timers[i] EXCEPT !.left = @ - solo.wait]]

\* The end of a segment of executeFindRow: the await has taken its time, the
\* finally block has set its timer if the segment ran it for a delete, and
\* the next await begins.
Timed(next, finally) ==
  [next EXCEPT
     !.timers = IF finally /\ solo.original # "none"
                  THEN Append(Aged, [to |-> solo.original, left |-> RestoreDelay])
                ELSE Aged,
     !.wait = WaitAt(next.pc)]

\* row = findMatchingRow(searchText), then the mark of the row or wait(1000)
Lookup(found) ==
  [solo EXCEPT !.looks = Append(@, found),
               !.marks = IF found THEN @ \cup {"row"} ELSE @,
               !.pc = IF found THEN "fr_marked" ELSE "fr_pause"]

\* executeFindRow up to wait(500)
FrBegin ==
  /\ solo.pc = "fr_start"
  /\ ~Due
  /\ LET searchText == Resolve(solo.given, solo.entry)
     IN solo' = Timed(IF solo.cancelled THEN Threw
                      ELSE IF searchText = <<>>
                        THEN Returned(StepFailure("No search text provided for find-row",
                                                  TRUE))
                      ELSE [solo EXCEPT !.desired = searchText, !.pc = "fr_settle"],
                      FALSE)
  /\ UNCHANGED engineVars

\* executeFindRow after wait(500): the first lookup
FrSettle ==
  /\ solo.pc = "fr_settle"
  /\ ~Due
  /\ \E found \in BOOLEAN :
       solo' = Timed(IF solo.cancelled THEN Threw ELSE Lookup(found), FALSE)
  /\ UNCHANGED engineVars

\* A lookup variant that gives up after two lookups.
FrPauseTwice ==
  /\ solo.pc = "fr_pause"
  /\ ~Due
  /\ \E found \in BOOLEAN :
       LET paused == [solo EXCEPT !.pauses = @ + 1, !.checks = @ + 1]
       IN solo' =
            Timed(IF solo.cancelled
                    THEN [paused EXCEPT !.pc = "done", !.result = StepCancelled]
                  ELSE IF Len(solo.looks) < MaxAttempts - 1
                    THEN [Lookup(found) EXCEPT !.pauses = paused.pauses,
                                               !.checks = paused.checks]
                  ELSE [paused EXCEPT !.pc = "done",
                          !.result = StepFailure("Could not find record", TRUE)],
                  FALSE)
  /\ UNCHANGED engineVars

\* executeFindRow after wait(1000): the check, then the next lookup or the end
\* of the loop with no row
FrPause ==
  /\ solo.pc = "fr_pause"
  /\ ~Due
  /\ \E found \in BOOLEAN :
       LET paused == [solo EXCEPT !.pauses = @ + 1, !.checks = @ + 1]
       IN solo' =
            Timed(IF solo.cancelled
                    THEN [paused EXCEPT !.pc = "done", !.result = StepCancelled]
                  ELSE IF Len(solo.looks) < MaxAttempts
                    THEN [Lookup(found) EXCEPT !.pauses = paused.pauses,
                                               !.checks = paused.checks]
                  ELSE [paused EXCEPT !.pc = "done",
                          !.result = StepFailure("Could not find record", TRUE)],
                  FALSE)
  /\ UNCHANGED engineVars

\* executeFindRow after the row was marked: findRowActionButton; for a delete
\* originalConfirm = window.confirm and window.confirm = () => true; the mark
\* of the button
FrMarked ==
  /\ solo.pc = "fr_marked"
  /\ ~Due
  /\ \E button \in BOOLEAN :
       solo' =
         Timed(IF solo.cancelled THEN Threw
               ELSE IF ~button
                 THEN [Returned(StepFailure("Could not find button in the row", TRUE))
                         EXCEPT !.marks = @ \ {"row"}]
               ELSE IF solo.action = "delete"
                 THEN [solo EXCEPT !.original = solo.confirm,
                                   !.confirm = "stub",
                                   !.marks = @ \cup {"button"},
                                   !.pc = "fr_button"]
               ELSE [solo EXCEPT !.marks = @ \cup {"button"},
                                 !.pc = "fr_button"],
               FALSE)
  /\ UNCHANGED engineVars

\* executeFindRow after the button was marked: the check and the click; the
\* finally block sets the timer when the check throws
FrClick ==
  /\ solo.pc = "fr_button"
  /\ ~Due
  /\ solo' = IF solo.cancelled THEN Timed(Threw, TRUE)
             ELSE Timed([solo EXCEPT !.clicked = TRUE, !.pc = "fr_clicked"], FALSE)
  /\ UNCHANGED engineVars

\* executeFindRow after the click: the marks are removed, the finally block
\* sets the timer, and the follow-up element is waited for when one is named;
\* waitForElement answers at once, after a second, or at its timeout
FrAfter ==
  /\ solo.pc = "fr_clicked"
  /\ ~Due
  /\ \E w \in {0, RetryWait, FollowTimeout} :
       solo' = IF solo.waitFor
                 THEN [Timed([solo EXCEPT !.marks = {}, !.pc = "fr_follow"], TRUE)
                         EXCEPT !.wait = w]
               ELSE Timed([Returned(StepSuccess) EXCEPT !.marks = {}], TRUE)
  /\ UNCHANGED engineVars

\* executeFindRow: waitForElement(step.waitFor, 5000) has answered; only at
\* its timeout is the answer null
FrFollow ==
  /\ solo.pc = "fr_follow"
  /\ ~Due
  /\ \E appeared \in BOOLEAN :
       /\ ~appeared => solo.wait = FollowTimeout
       /\ solo' = Timed(IF appeared THEN Returned(StepSuccess)
                        ELSE Returned(StepFailure("Expected element did not appear",
                                                  FALSE)),
                        FALSE)
  /\ UNCHANGED engineVars

\* The timer of a finally block fires: window.confirm = originalConfirm.  The
\* timers have one delay, so they fire in the order they were set.
FrRestore ==
  /\ solo.timers # <<>>
  /\ Head(solo.timers).left <= solo.wait
  /\ LET passed == Head(solo.timers).left
     IN solo' = [solo EXCEPT
                   !.confirm = Head(solo.timers).to,
                   !.timers = [i \in 1..(Len(solo.timers) - 1) |->
                                 [solo.timers[i + 1] EXCEPT !.left = @ - passed]],
                   !.wait = IF solo.pc = "done" THEN @ ELSE @ - passed]
  /\ UNCHANGED engineVars

\* The engine calls the executor for the next find-row step of the plan, or
\* for a step of a later plan: after a cancellation its catch block has run
\* clearGhostHighlights.  The page keeps window.confirm and the timers.
FrAgain ==
  /\ solo.kind = "find-row"
  /\ solo.pc = "done"
  /\ solo.calls < MaxCalls
  /\ \E d \in {sLowerGradeA, <<>>}, a \in RowActions, w \in BOOLEAN :
       solo' = [solo EXCEPT
                  !.pc = "fr_start", !.cancelled = FALSE, !.given = d,
                  !.desired = <<>>,
                  !.action = a, !.waitFor = w, !.looks = <<>>, !.pauses = 0,
                  !.checks = 0, !.clicked = FALSE, !.original = "none",
                  !.marks = IF solo.result.status = "threw" THEN {} ELSE @,
                  !.result = NoStepResult, !.wait = 0, !.calls = @ + 1]
  /\ UNCHANGED engineVars

--------------------------------------------------------------------------
(* manifestLoader: loadManifest, run on its own *)

\* A manifest is known by where it came from and by its schemaVersion field:
\* "absent" when the manifest has none.
NoManifest == NoLoaded
Manifest(src, v) == [from |-> src, schemaVersion |-> v]
\* A script tag whose text JSON.parse rejects.
Unparsable == [from |-> "unparsable", schemaVersion |-> "absent"]
SchemaVersions == {"absent", "", "1.0.0", "2.0.0"}

\* manifest.schemaVersion || '1.0.0'
VersionOf(m) ==
  IF m.schemaVersion \in {"absent", ""} THEN "1.0.0" ELSE m.schemaVersion

\* validateManifestVersion(manifest)
validateManifestVersion(m) == VersionOf(m) = "1.0.0"

\* A loader that gives up on a manifest of an unsupported version.
AcceptSupportedOnly(m) ==
  IF validateManifestVersion(m)
    THEN [solo EXCEPT !.pc = "done", !.cache = m, !.loaded = m]
    ELSE [solo EXCEPT !.pc = "done", !.loaded = NoManifest, !.warned = TRUE]

\* The end of loadManifest with a manifest: the version is looked at, a
\* warning is logged when it is not supported, and the manifest is cached
\* and returned.
Accept(m) ==
  [solo EXCEPT !.pc = "done", !.cache = m, !.loaded = m,
               !.warned = ~validateManifestVersion(m)]

\* loadManifest up to the fetch: the cache, window.__GLIDE__, the script tag
LdBegin ==
  /\ solo.pc = "ld_start"
  /\ solo' =
       IF solo.cache # NoManifest
         THEN [solo EXCEPT !.pc = "done", !.loaded = solo.cache]
       ELSE IF solo.page.global # NoManifest THEN Accept(solo.page.global)
       ELSE IF solo.page.script.from \notin {"none", "unparsable"}
         THEN Accept(solo.page.script)
       ELSE [solo EXCEPT !.pc = "ld_fetch"]
  /\ UNCHANGED engineVars

\* loadManifest after fetch('/glide.manifest.json'): the file, or nothing
\* when the response is not ok or the fetch has failed
LdFetched ==
  /\ solo.pc = "ld_fetch"
  /\ solo' = IF solo.page.file # NoManifest THEN Accept(solo.page.file)
             ELSE [solo EXCEPT !.pc = "done", !.loaded = NoManifest]
  /\ UNCHANGED engineVars

\* loadManifest is called again in the same page context.
LdAgain ==
  /\ solo.kind = "load"
  /\ solo.pc = "done"
  /\ solo.calls < MaxCalls
  /\ solo' = [solo EXCEPT !.pc = "ld_start", !.loaded = NoManifest,
                          !.warned = FALSE, !.calls = @ + 1]
  /\ UNCHANGED engineVars

\* The pages loadManifest is run on.
Sources(src) == {NoManifest} \cup {Manifest(src, v) : v \in SchemaVersions}
LoadCalls ==
  {[NoSolo EXCEPT !.kind = "load", !.pc = "ld_start", !.calls = 1,
                  !.page = [global |-> g, script |-> s, file |-> f]] :
     g \in Sources("window"),
     s \in {NoManifest, Unparsable, Manifest("script", "2.0.0")},
     f \in {NoManifest, Manifest("file", "absent"), Manifest("file", "2.0.0")}}

--------------------------------------------------------------------------
(* content/ghostNavigator.ts: findElement and findByLabel *)

\* An element is known by its id and its type property; NoElement is null.
NoElement == NoFound
Element(id, type) == [id |-> id, type |-> type]

\* label.textContent, the element document.getElementById(label.htmlFor)
\* gives (null also when the label has no for attribute), the first
\* input, select or textarea inside the label, and the first one inside the
\* label's parent
Label(text, for, nested, inParent) ==
  [text |-> text, for |-> for, nested |-> nested, inParent |-> inParent]

\* !inputType || input.type === inputType
TypeFits(el, inputType) == inputType = <<>> \/ el.type = inputType

\* findByLabel(labelText, inputType) over the labels from position k on
RECURSIVE findByLabel(_, _, _, _)
findByLabel(labels, k, labelText, inputType) ==
  IF k > Len(labels) THEN NoElement
  ELSE LET label == labels[k]
       IN IF ~includes(toLowerCase(label.text), toLowerCase(labelText))
            THEN findByLabel(labels, k + 1, labelText, inputType)
          ELSE IF label.for # NoElement /\ TypeFits(label.for, inputType)
            THEN label.for
          ELSE IF label.nested # NoElement THEN label.nested
          ELSE IF label.inParent # NoElement /\ TypeFits(label.inParent, inputType)
            THEN label.inParent
          ELSE findByLabel(labels, k + 1, labelText, inputType)

\* s.split('|')
RECURSIVE splitBar(_, _)
splitBar(s, part) ==
  IF s = <<>> THEN <<part>>
  ELSE IF Head(s) = "|" THEN <<part>> \o splitBar(Tail(s), <<>>)
  ELSE splitBar(Tail(s), Append(part, Head(s)))

sLabelPrefix == <<"l", "a", "b", "e", "l", ":">>
\* selector.startsWith('label:')
startsWithLabel(selector) ==
  Len(selector) >= Len(sLabelPrefix)
    /\ SubSeq(selector, 1, Len(sLabelPrefix)) = sLabelPrefix

\* findElement(selector) on a page with these labels, where
\* document.querySelector(selector) gives the element css
findElement(selector, labels, css) ==
  IF startsWithLabel(selector)
    THEN LET parts == splitBar(SubSeq(selector, Len(sLabelPrefix) + 1, Len(selector)),
                               <<>>)
         IN findByLabel(labels, 1, parts[1],
                        IF Len(parts) >= 2 THEN parts[2] ELSE <<>>)
    ELSE css

\* findElement(selector) is called.
FindElement ==
  /\ solo.pc = "fe_start"
  /\ solo' = [solo EXCEPT !.pc = "done",
                          !.found = findElement(solo.selector, solo.labels, solo.css)]
  /\ UNCHANGED engineVars

\* The pages and the selectors findElement is called with.
sText == <<"t", "e", "x", "t">>
sNumber == <<"n", "u", "m", "b", "e", "r">>
sSelectOne == <<"s", "e", "l", "e", "c", "t", "-", "o", "n", "e">>
sFullName == <<"F", "u", "l", "l", " ", "N", "a", "m", "e">>
sLowerFullName == <<"f", "u", "l", "l", " ", "n", "a", "m", "e">>
sAge == <<"A", "g", "e">>
sZip == <<"Z", "i", "p">>
sCss == <<"#", "f", "1">>
InputF1 == Element("f1", sText)
InputN1 == Element("n1", sNumber)
InputT2 == Element("t2", sText)
SelectS1 == Element("s1", sSelectOne)

Labels ==
  {Label(t, f, n, p) :
     t \in {sFullName, sAge},
     f \in {NoElement, InputF1, InputN1},
     n \in {NoElement, InputT2},
     p \in {NoElement, InputN1, SelectS1}}
LaterLabels == {Label(sFullName, InputF1, NoElement, NoElement),
                Label(sAge, NoElement, NoElement, InputN1)}
Pages == {<<a>> : a \in Labels}
           \cup {<<a, b>> : a \in Labels, b \in LaterLabels}
Selectors ==
  {sLabelPrefix \o t \o bar :
     t \in {sFullName, sLowerFullName, sAge, sZip},
     bar \in {<<>>, <<"|">>, <<"|">> \o sText, <<"|">> \o sNumber}}
    \cup {sCss}
FindCalls ==
  {[NoSolo EXCEPT !.kind = "find", !.pc = "fe_start", !.calls = 1,
                  !.selector = s, !.labels = l, !.css = InputF1] :
     s \in Selectors, l \in Pages}

\* The executor is called with a step, against a page.
SelectCalls ==
  {[NoSolo EXCEPT !.kind = "select", !.pc = "sel_start", !.given = b.given,
                  !.entry = b.entry, !.options = m, !.value = v,
                  !.present = p, !.calls = 1] :
     b \in Bindings, m \in Menus,
     v \in {<<>>, <<"r">>, sGradeB}, p \in BOOLEAN}
FillCalls ==
  {[NoSolo EXCEPT !.kind = "fill", !.pc = "fl_start", !.given = b.given,
                  !.entry = b.entry, !.value = v, !.present = e.present,
                  !.number = e.number, !.settable = e.settable, !.calls = 1] :
     b \in FillBindings, v \in {<<>>, <<"x">>}, e \in Fields}
SubmitCalls ==
  {[NoSolo EXCEPT !.kind = "submit", !.pc = "sb_start", !.present = p,
                  !.waitFor = w, !.errorSel = e, !.errText = x, !.calls = 1] :
     p \in BOOLEAN, w \in BOOLEAN, e \in BOOLEAN, x \in {<<>>, sRed, sBlank}}
FindRowCalls ==
  {[NoSolo EXCEPT !.kind = "find-row", !.pc = "fr_start", !.given = d,
                  !.action = a, !.waitFor = w, !.calls = 1] :
     d \in {sLowerGradeA, <<>>}, a \in RowActions, w \in BOOLEAN}

--------------------------------------------------------------------------
(* content/ghostNavigator.ts: checkPendingExecution on its own *)

\* What chrome.storage.local holds under EXECUTION_STATE_KEY when the check is
\* made: nothing, or a state whose plan has any status and cursor.
StoredStates ==
  {NoState} \cup
  {[plan |-> [NoPlan EXCEPT !.id = 1, !.steps = <<[type |-> "fill"]>>,
                            !.status = st, !.currentStep = c]] :
     st \in PlanStatus, c \in 0..1}

\* checkPendingExecution: loadExecutionState() has answered.
PdLoaded ==
  /\ solo.pc = "pd_load"
  /\ solo' = IF IsPending(solo.stored)
               THEN [solo EXCEPT !.pc = "pd_clear", !.held = solo.stored]
               ELSE [solo EXCEPT !.pc = "done", !.pending = NoState]
  /\ UNCHANGED engineVars

\* checkPendingExecution: clearExecutionState() has answered; the state loaded
\* is returned.
PdCleared ==
  /\ solo.pc = "pd_clear"
  /\ solo' = [solo EXCEPT !.pc = "done", !.stored = ClearedSlot,
                          !.pending = solo.held, !.held = NoState]
  /\ UNCHANGED engineVars

\* checkPendingExecution is called again.
PdAgain ==
  /\ solo.kind = "pending"
  /\ solo.pc = "done"
  /\ solo.calls < MaxCalls
  /\ solo' = [solo EXCEPT !.pc = "pd_load", !.pending = NoState, !.calls = @ + 1]
  /\ UNCHANGED engineVars

PendingCalls ==
  {[NoSolo EXCEPT !.kind = "pending", !.pc = "pd_load", !.calls = 1,
                  !.stored = st] : st \in StoredStates}

--------------------------------------------------------------------------
(* content/ghostNavigator.ts: resumeExecution on its own *)

\* The head of resumeExecution with the single-flight lock taken first.
RsBeginLocked ==
  /\ solo.pc = "rs_start"
  /\ solo' = IF ~solo.hasManifest
               THEN [solo EXCEPT !.pc = "rs_clear", !.lock = TRUE]
               ELSE [solo EXCEPT !.pc = "done", !.delegated = TRUE]
  /\ UNCHANGED engineVars

\* resumeExecution up to its first await: without a manifest it calls
\* clearExecutionState, with one it hands state.plan to executeFromStep.
RsBegin ==
  /\ solo.pc = "rs_start"
  /\ solo' = IF ~solo.hasManifest
               THEN [solo EXCEPT !.pc = "rs_clear"]
               ELSE [solo EXCEPT !.pc = "done", !.delegated = TRUE]
  /\ UNCHANGED engineVars

\* clearExecutionState() has answered: the failure is returned.
RsCleared ==
  /\ solo.pc = "rs_clear"
  /\ solo' = [solo EXCEPT !.pc = "done", !.stored = ClearedSlot,
                          !.outcome = NoManifestResult]
  /\ UNCHANGED engineVars

\* resumeExecution is called with the state a check returned; the slot is
\* empty or holds a state written since, and another run may hold the lock.
ResumeCalls ==
  {[NoSolo EXCEPT !.kind = "resume", !.pc = "rs_start", !.calls = 1,
                  !.held = st, !.stored = now, !.hasManifest = m, !.lock = l] :
     st \in StoredStates \ {NoState}, now \in StoredStates,
     m \in BOOLEAN, l \in BOOLEAN}

--------------------------------------------------------------------------
(* shared/cancellationToken.ts: CancellationToken *)

\* new CancellationToken(): _isCancelled = false, _onCancel undefined; invoked
\* counts the calls the token has made of a registered callback.
NewToken == [isCancelled |-> FALSE, onCancel |-> "none", invoked |-> 0]

\* The callbacks a caller registers.
Callbacks == {"f", "g"}

\* cancel() without the test of _isCancelled.
cancelAgain(tok) ==
  [tok EXCEPT !.isCancelled = TRUE,
              !.invoked = IF tok.onCancel # "none" THEN @ + 1 ELSE @]

\* cancel(): nothing when already cancelled; else the flag is set and then the
\* callback, if one is registered, is called.  A callback that calls cancel()
\* itself finds the flag set.
cancel(tok) ==
  IF tok.isCancelled
    THEN tok
    ELSE [tok EXCEPT !.isCancelled = TRUE,
                     !.invoked = IF tok.onCancel # "none" THEN @ + 1 ELSE @]

\* throwIfCancelled(): TRUE when CancellationError is thrown.
throwIfCancelled(tok) == tok.isCancelled

\* onCancel(callback)
onCancel(tok, callback) == [tok EXCEPT !.onCancel = callback]

\* createCancellationToken()
TkCreate ==
  /\ solo.pc = "tk_start"
  /\ solo' = [solo EXCEPT !.pc = "tk_live", !.token = NewToken, !.op = "create"]
  /\ UNCHANGED engineVars

TkCancel ==
  /\ solo.pc = "tk_live"
  /\ solo' = [solo EXCEPT !.token = cancel(solo.token), !.op = "cancel",
                          !.raised = FALSE]
  /\ UNCHANGED engineVars

TkThrowIfCancelled ==
  /\ solo.pc = "tk_live"
  /\ solo' = [solo EXCEPT !.raised = throwIfCancelled(solo.token), !.op = "check"]
  /\ UNCHANGED engineVars

TkOnCancel ==
  /\ solo.pc = "tk_live"
  /\ \E cb \in Callbacks :
       solo' = [solo EXCEPT !.token = onCancel(solo.token, cb), !.op = "register",
                            !.raised = FALSE]
  /\ UNCHANGED engineVars

TokenCalls == {[NoSolo EXCEPT !.kind = "token", !.pc = "tk_start"]}

--------------------------------------------------------------------------
(* content/ghostNavigator.ts: executeCheck *)

\* executeCheck up to waitForElement; the step names its checkbox.
CkBegin ==
  /\ solo.pc = "ck_start"
  /\ solo' = IF solo.cancelled THEN Threw ELSE [solo EXCEPT !.pc = "ck_wait"]
  /\ UNCHANGED engineVars

\* The variant that sets the box and dispatches change whatever its state.
CkLocateAlways ==
  /\ solo.pc = "ck_wait"
  /\ solo' =
       IF ~solo.present THEN Returned(StepFailure("Element not found", FALSE))
       ELSE IF solo.cancelled THEN Threw
       ELSE [solo EXCEPT !.marks = {"element"}, !.pc = "ck_delay",
                         !.box = TRUE, !.changes = @ + 1]
  /\ UNCHANGED engineVars

\* executeCheck from the answer of waitForElement to wait(ACTION_DELAY): the
\* element is marked and, when it is not checked, checked with a change event.
CkLocate ==
  /\ solo.pc = "ck_wait"
  /\ solo' =
       IF ~solo.present THEN Returned(StepFailure("Element not found", FALSE))
       ELSE IF solo.cancelled THEN Threw
       ELSE [solo EXCEPT !.marks = {"element"}, !.pc = "ck_delay",
                         !.box = TRUE,
                         !.changes = IF solo.box THEN @ ELSE @ + 1]
  /\ UNCHANGED engineVars

\* executeCheck after wait(ACTION_DELAY)
CkDone ==
  /\ solo.pc = "ck_delay"
  /\ solo' = [Returned(StepSuccess) EXCEPT !.marks = {}]
  /\ UNCHANGED engineVars

\* The check step is run again on the same page.
CkAgain ==
  /\ solo.kind = "check"
  /\ solo.pc = "done"
  /\ solo.calls < MaxCalls
  /\ solo' = [solo EXCEPT !.pc = "ck_start", !.cancelled = FALSE,
                          !.result = NoStepResult, !.calls = @ + 1]
  /\ UNCHANGED engineVars

CheckCalls ==
  {[NoSolo EXCEPT !.kind = "check", !.pc = "ck_start", !.calls = 1,
                  !.present = p, !.box = b] : p \in BOOLEAN, b \in BOOLEAN}

--------------------------------------------------------------------------
(* content/ghostNavigator.ts: stringSimilarity on its own *)

\* stringSimilarity(a, b) is computed for the pair of the call.
SimApply ==
  /\ solo.pc = "sim_start"
  /\ solo' = [solo EXCEPT !.pc = "done",
                          !.score = stringSimilarity(solo.given, solo.desired)]
  /\ UNCHANGED engineVars

\* The strings compared: empty and blank ones, one and several words, with
\* capitals and with spaces around.
Texts == {<<>>, sBlank, sRed, sBlue, sLowerBlue, sGradeA, sLowerGradeA, sGradeB,
          sRedBlueGreen, sThreeOfFive, sTwoOfFour, sXyz123}
SimCalls ==
  {[NoSolo EXCEPT !.kind = "similarity", !.pc = "sim_start", !.calls = 1,
                  !.given = a, !.desired = b] : a \in Texts, b \in Texts}

--------------------------------------------------------------------------
(* background/gemini.ts: callGeminiAPI on its own *)

\* const MAX_RETRIES = 3
MaxRetries == 3
\* const INITIAL_RETRY_DELAY = 2000, in milliseconds
InitialRetryDelay == 2000

RECURSIVE Pow(_, _)
\* Math.pow(base, n) for a natural n
Pow(base, n) == IF n = 0 THEN 1 ELSE base * Pow(base, n - 1)

\* The model a request goes to:
\* useFallback ? GEMINI_MODEL_FALLBACK : 'gemini-3-flash-preview'
Model(useFallback) == IF useFallback THEN "fallback" ELSE "primary"

\* What the message of an error body says of the delay: /retry in (\d+\.?\d*)s/i
\* matched or not, and the seconds it names.
NoRetryAfter == [matched |-> FALSE, seconds |-> 0]
RetryAfter(n) == [matched |-> TRUE, seconds |-> n]

\* retryAfterMatch ? parseFloat(retryAfterMatch[1]) * 1000
\*                 : INITIAL_RETRY_DELAY * Math.pow(2, retryCount)
retryDelay(retryAfterMatch, retryCount) ==
  IF retryAfterMatch.matched THEN retryAfterMatch.seconds * 1000
  ELSE InitialRetryDelay * Pow(2, retryCount)

\* response.ok: a status of 200 to 299
Ok(status) == status >= 200 /\ status <= 299

\* The arguments of the call made on a server error of the primary model, with
\* the retry count set back to 0.
OnServerErrorReset(call) == [call EXCEPT !.useFallback = TRUE, !.retryCount = 0]

\* The arguments of the call made on a server error of the primary model:
\* callGeminiAPI(systemPrompt, userMessage, apiKey, retryCount, true)
OnServerError(call) == [call EXCEPT !.useFallback = TRUE]

\* fetch(apiUrl, ...) of a call: one more request, to the model of the call.
Fetched(call) ==
  [call EXCEPT !.pc = "gm_fetch", !.models = Append(@, Model(call.useFallback))]

\* callGeminiAPI(systemPrompt, userMessage, apiKey) up to its await of fetch.
GmCall ==
  /\ solo.pc = "gm_start"
  /\ solo' = Fetched(solo)
  /\ UNCHANGED engineVars

\* The responses of the server: the status and what the error message says of
\* the delay; the status 0 stands for a fetch that rejects.
Statuses == {0, 200, 404, 429, 500, 503}
Responses ==
  {[status |-> st, retryAfterMatch |-> m] :
     st \in Statuses, m \in {NoRetryAfter, RetryAfter(0), RetryAfter(7)}}

\* The response of fetch arrives and callGeminiAPI goes on to its next await or
\* to its end.
GmRespond ==
  /\ solo.pc = "gm_fetch"
  /\ \E response \in Responses :
       LET status == response.status
           heard == [solo EXCEPT !.statuses = Append(@, status)]
       IN /\ response.retryAfterMatch.matched => status = 429
          /\ solo' =
               IF status = 0
                 THEN [heard EXCEPT !.pc = "done", !.reply = "network"]
               ELSE IF status = 429 /\ solo.retryCount < MaxRetries
                 THEN [heard EXCEPT
                         !.pc = "gm_wait",
                         !.waited = Append(@, [named |-> response.retryAfterMatch,
                                               ms |-> retryDelay(response.retryAfterMatch,
                                                                 solo.retryCount)])]
               ELSE IF ~Ok(status)
                 THEN IF status = 429
                        THEN [heard EXCEPT !.pc = "done", !.reply = "quota"]
                      ELSE IF ~solo.useFallback /\ status >= 500
                        THEN Fetched(OnServerError(heard))
                      ELSE [heard EXCEPT !.pc = "done", !.reply = "api_error"]
               ELSE [heard EXCEPT !.pc = "done", !.reply = "returned"]
  /\ UNCHANGED engineVars

\* wait(retryDelay) is over:
\* callGeminiAPI(systemPrompt, userMessage, apiKey, retryCount + 1, useFallback)
GmWake ==
  /\ solo.pc = "gm_wait"
  /\ solo' = Fetched([solo EXCEPT !.retryCount = @ + 1])
  /\ UNCHANGED engineVars

GeminiCalls ==
  {[NoSolo EXCEPT !.kind = "gemini", !.pc = "gm_start", !.calls = 1]}

StepInit ==
  /\ slot = NoState
  /\ isExecuting = FALSE
  /\ engToken = NoToken
  /\ idxToken = NoToken
  /\ resumeInProgress = FALSE
  /\ manifest = FALSE
  /\ navPending = FALSE
  /\ cancelled = {}
  /\ planned = <<>>
  /\ ghostMarks = {}
  /\ tk = [t \in Task |-> IdleTask]
  /\ execs = 0
  /\ returned = NoReturn
  /\ reached = [id \in PlanIds |-> 0]
  /\ solo \in SelectCalls \cup FillCalls \cup SubmitCalls \cup FindRowCalls
               \cup LoadCalls \cup FindCalls \cup PendingCalls
               \cup ResumeCalls \cup TokenCalls
               \cup CheckCalls \cup SimCalls \cup GeminiCalls

StepNext ==
  \/ SoloCancel
  \/ SelectBegin
  \/ SelectMatch
  \/ SelectDone
  \/ FlBegin
  \/ FlLocate
  \/ FlType
  \/ FlNumber
  \/ FlVerify
  \/ FlDone
  \/ SbPageSuccess
  \/ SbPageError
  \/ SbBegin
  \/ SbLocate
  \/ SbClick
  \/ SbAfter
  \/ SbPoll
  \/ FrBegin
  \/ FrSettle
  \/ FrPause
  \/ FrMarked
  \/ FrClick
  \/ FrAfter
  \/ FrFollow
  \/ FrRestore
  \/ FrAgain
  \/ LdBegin
  \/ LdFetched
  \/ LdAgain
  \/ FindElement
  \/ PdLoaded
  \/ PdCleared
  \/ PdAgain
  \/ RsBegin
  \/ RsCleared
  \/ TkCreate
  \/ TkCancel
  \/ TkThrowIfCancelled
  \/ TkOnCancel
  \/ CkBegin
  \/ CkLocate
  \/ CkDone
  \/ CkAgain
  \/ SimApply
  \/ GmCall
  \/ GmRespond
  \/ GmWake

StepSpec == StepInit /\ [][StepNext]_vars

\* The units with a call that runs, every request answered and every timer of
\* wait() firing.
GeminiSpec ==
  StepSpec /\ WF_vars(GmCall) /\ WF_vars(GmRespond) /\ WF_vars(GmWake)

--------------------------------------------------------------------------
(* Properties *)

\* Some invocation holds the loop of executeFromStep.
Running == \E t \in Task : Executing(t)

\* Activity t leaves executeFromStep in this step with a result.
Returns(t) == Active(t) /\ tk'[t].pc = "idle" /\ returned'.by = t

\* C1 (state part): at most one invocation is executing steps at any moment.
C1_AtMostOneRunning ==
  \A t, u \in Task : (Executing(t) /\ Executing(u)) => t = u

\* The start request of activity t is answered success=false, "Execution
\* already in progress", no step is begun and the active execution keeps its
\* position, cursor and errors.
Rejected(t) ==
  /\ returned'.by = t
  /\ returned'.res.success = FALSE
  /\ returned'.res.message = "Execution already in progress"
  /\ returned'.res.completedSteps = 0
  /\ \A u \in Task :
       IF Executing(u)
         THEN /\ tk'[u].pc = tk[u].pc
              /\ tk'[u].cur = tk[u].cur
              /\ tk'[u].errors = tk[u].errors
              /\ tk'[u].begun = tk[u].begun
         ELSE tk'[u].pc \notin EnginePcs \ {"cancel_out"}

\* C1 (step part): a start request made while an execution is active, by
\* EXECUTE_PLAN, by initialize or by checkUrlChange, is rejected.
C1_RejectedStart ==
  /\ ((returned' # returned \/ execs' # execs) /\ manifest /\ Running
        /\ ExecutePlan) => Rejected("msg")
  /\ (tk["init"].pc = "settle" /\ Running /\ InitResume) => Rejected("init")
  /\ (tk["poll"].pc = "chk_clear" /\ manifest /\ Running /\ CheckClearPoll)
        => Rejected("poll")

\* C1: single-flight. At most one engine invocation executes steps at a time,
\* and a start request that arrives while one is active is rejected as
\* "already in progress" without executing a step or touching the active run.
C1_SingleFlight == [](C1_AtMostOneRunning) /\ [][C1_RejectedStart]_vars

\* C1 witness: a start was rejected while a run that has begun a step goes on.
C1_Witness ==
  /\ returned.res.message = "Execution already in progress"
  /\ \E t \in Task : Executing(t) /\ tk[t].begun >= 1 /\ returned.by # "none"

\* checkPendingExecution has handed the state to activity t.
Received(t) == tk[t].pend # NoState /\ tk[t].pc # "chk_clear"

\* C2: at most one caller of checkPendingExecution receives a state written to
\* the slot: initialize and checkUrlChange never both hold the same state.
C2_OneResumptionPerState ==
  ~(Received("init") /\ Received("poll") /\ tk["init"].pend = tk["poll"].pend)

\* C3: persist before navigate. Whenever the navigation click of a navigate
\* step has been issued, the slot already holds the plan with its cursor
\* advanced past that step.
C3_PersistBeforeClick ==
  \A t \in Task : tk[t].pc = "nav_clicked" => slot = SavedState(tk[t].plan, tk[t].cur)

\* C4 (state part): the persisted cursor is the index just after the navigate
\* step that caused the hand-off, and a resumed run that has begun no step yet
\* stands at exactly the cursor of the state it received.
C4_ResumeAtPersistedCursor ==
  /\ slot # NoState =>
       /\ slot.plan.currentStep \in 1..Len(slot.plan.steps)
       /\ slot.plan.steps[slot.plan.currentStep].type = "navigate"
  /\ \A t \in Resumer :
       (Active(t) /\ tk[t].begun = 0) =>
          /\ tk[t].plan.id = tk[t].pend.plan.id
          /\ tk[t].plan.steps = tk[t].pend.plan.steps
          /\ tk[t].cur = tk[t].pend.plan.currentStep

\* C4 (step part): checkPendingExecution leaves the slot empty when it hands a
\* state over, and a check that finds the slot empty returns null.
C4_SecondCheckFindsNothing ==
  /\ (tk["init"].pc = "chk_clear" /\ CheckClearInit) => slot' = NoState
  /\ (tk["poll"].pc = "chk_clear" /\ CheckClearPoll) => slot' = NoState
  /\ \A t \in Resumer :
       (tk[t].pc = "chk_load" /\ slot = NoState /\ CheckLoad(t)) =>
          tk'[t] = IdleTask

\* C4: hand-off idempotence. Resuming the state checkPendingExecution returned
\* begins at exactly the persisted currentStep, and a second check made after
\* the first has cleared the slot returns null.
C4_HandOffIdempotence ==
  [](C4_ResumeAtPersistedCursor) /\ [][C4_SecondCheckFindsNothing]_vars

\* C4 witness: a resumed run is inside the first step it began, which is the
\* step at the persisted cursor, and the slot is empty.
C4_Witness ==
  \E t \in Resumer :
    /\ tk[t].pc \in StepPcs
    /\ tk[t].begun = 1
    /\ tk[t].cur = tk[t].pend.plan.currentStep
    /\ tk[t].cur >= 1
    /\ slot = NoState

\* C5: the lock is held only while an execution is active: when no invocation
\* is inside executeFromStep the lock is free.
C5_LockFreeWhenIdle == (\A t \in Task : ~Active(t)) => ~isExecuting

\* C6: whenever an execution is active and not yet cancelled, CANCEL_EXECUTION
\* would cancel the token it checks: the host holds a token and the engine's
\* registered token is the run's.
C6_CancelReachesActiveRun ==
  \A t \in Task :
    (Executing(t) /\ ~IsCancelled(tk[t].token)) =>
       (idxToken # NoToken /\ engToken = tk[t].token)

\* C7: once cancel has been accepted for an execution that is inside a step,
\* the execution does not go on to the completion path, which returns a
\* completed result.
C7_CancelledNeverCompletes ==
  [][\A t \in Task :
       (tk[t].pc \in StepPcs \cup {"loop"} /\ IsCancelled(tk[t].token)) =>
          tk'[t].pc # "finish"]_vars

\* C8: when cancellation is raised while step i is in progress the engine
\* empties the slot, removes every ghost marker and returns success=false,
\* cancelled=true, totalSteps=steps.length, completedSteps=i, with no error
\* recorded for the cancellation.
C8_CancelledResultShape ==
  [][\A t \in Task :
       (tk[t].pc \in {"cancel_in", "cancel_out"} /\ Returns(t)) =>
          /\ slot' = NoState
          /\ ghostMarks' = {}
          /\ returned'.res.success = FALSE
          /\ returned'.res.cancelled = TRUE
          /\ returned'.res.navigating = FALSE
          /\ returned'.res.totalSteps = Len(tk[t].plan.steps)
          /\ returned'.res.completedSteps = tk[t].cur
          /\ returned'.res.errors = <<>>]_vars

\* C8 witness: a run interrupted in its second or a later step has returned
\* the cancelled result.
C8_Witness ==
  /\ returned.by \in Task
  /\ returned.res.cancelled
  /\ returned.res.completedSteps >= 1
  /\ returned.res.completedSteps < returned.res.totalSteps
  /\ slot = NoState
  /\ ghostMarks = {}

\* C9: after CANCEL_EXECUTION has answered SUCCESS for a plan, running or
\* waiting in the slot, no activity begins a further step of that plan.
C9_NoStepAfterCancel ==
  [][\A t \in Task : tk'[t].begun > tk[t].begun => ~tk[t].plan.stopped]_vars

\* C10: a plan with zero steps is reported as a failure.
C10_EmptyPlanFails ==
  (returned.by = "msg" /\ returned.res.totalSteps = 0) => ~returned.res.success

\* The cursor the run of activity t started from.
StartOf(t) == IF t \in Resumer THEN tk[t].pend.plan.currentStep ELSE 0

\* C11: round-trip. When a run reaches the completion path for a plan none of
\* whose steps has failed, in this run or in the runs before a hand-off, the
\* result has success=true and completedSteps = totalSteps = steps.length, and
\* the slot is empty once the result is returned.
C11_RoundTrip ==
  [][\A t \in Task :
       (tk[t].pc = "finish" /\ Returns(t) /\ tk[t].plan.noted = 0) =>
          /\ returned'.res.success = TRUE
          /\ returned'.res.completedSteps = Len(tk[t].plan.steps)
          /\ returned'.res.totalSteps = Len(tk[t].plan.steps)
          /\ returned'.res.navigating = FALSE
          /\ slot' = NoState]_vars

\* C11 witness: a resumed run has returned the successful result of a plan of
\* two or more steps, so at least one hand-off lies behind it.
C11_Witness ==
  /\ returned.by \in Resumer
  /\ returned.res.success
  /\ ~returned.res.navigating
  /\ returned.res.totalSteps >= 2
  /\ returned.res.completedSteps = returned.res.totalSteps
  /\ slot = NoState

\* C12: steps run one at a time in plan order. A step is begun only when no
\* other activity is inside a step of the plan, and it is the step right after
\* the last one begun for that plan in any run: never one begun before, never
\* one further on.
C12_EachStepOnceInOrder ==
  [][\A t \in Task :
       tk'[t].begun > tk[t].begun =>
          /\ tk[t].cur + 1 = reached[tk[t].plan.id] + 1
          /\ \A u \in Task \ {t} :
                tk[u].plan.id = tk[t].plan.id => tk[u].pc \notin StepPcs]_vars

\* A step result is handled by activity t in this step of the model.
Handled(t) ==
  /\ tk[t].pc \in StepPcs \cup {"loop"}
  /\ tk'[t].pc \in {"loop", "finish"}
  /\ tk[t].pc \in StepPcs \/ tk'[t].begun > tk[t].begun

\* C13 (step part): a non-fatal failure is recorded and the loop goes on with
\* the next step; a fatal failure or an exception is recorded and the loop is
\* left with the cursor on the failed step; from there the run only returns
\* (unless the page is unloaded), with completedSteps equal to that cursor and
\* the errors recorded.
C13_FailureHandling ==
  \A t \in Task :
    /\ Handled(t) =>
         /\ tk'[t].last = "ok" =>
               /\ tk'[t].errors = tk[t].errors
               /\ tk'[t].cur = tk[t].cur + 1
               /\ tk'[t].pc = "loop"
         /\ tk'[t].last = "failed" =>
               /\ Len(tk'[t].errors) = Len(tk[t].errors) + 1
               /\ SubSeq(tk'[t].errors, 1, Len(tk[t].errors)) = tk[t].errors
               /\ tk'[t].cur = tk[t].cur + 1
               /\ tk'[t].pc = "loop"
         /\ tk'[t].last \in {"fatal", "threw"} =>
               /\ Len(tk'[t].errors) = Len(tk[t].errors) + 1
               /\ SubSeq(tk'[t].errors, 1, Len(tk[t].errors)) = tk[t].errors
               /\ tk'[t].cur = tk[t].cur
               /\ tk'[t].pc = "finish"
    /\ (tk[t].pc = "finish" /\ tk'[t].pc # "finish" /\ ~Reload) =>
         /\ Returns(t)
         /\ tk'[t].begun = 0
         /\ returned'.res.completedSteps = tk[t].cur
         /\ returned'.res.errors = tk[t].errors
         /\ returned'.res.success = (tk[t].errors = <<>>)

\* C13 (state part): after a fatal failure or an exception the cursor is the
\* index of the step that failed, the last one the run began; after a
\* non-fatal failure it is the index of the next step.
C13_StopsAtFailedStep ==
  \A t \in Task :
    /\ (tk[t].pc = "finish" /\ tk[t].last \in {"fatal", "threw"}) =>
         /\ tk[t].cur = StartOf(t) + tk[t].begun - 1
         /\ tk[t].cur < Len(tk[t].plan.steps)
         /\ tk[t].errors # <<>>
    /\ (tk[t].pc = "loop" /\ tk[t].last = "failed") =>
         /\ tk[t].cur = StartOf(t) + tk[t].begun
         /\ tk[t].errors # <<>>

\* C13: a step result with success=false and no fatal flag is recorded and
\* execution continues with the next step; a fatal result or a
\* non-cancellation exception is recorded and stops the plan at once, so no
\* later step runs and completedSteps is the index of the failed step.
C13_NonFatalContinuesFatalStops ==
  [](C13_StopsAtFailedStep) /\ [][C13_FailureHandling]_vars

\* C13 witness: the first step failed without the fatal flag, the second was
\* run and failed fatally or threw, and the result reports both errors with
\* completedSteps = 1.
C13_Witness ==
  /\ returned.by \in Task
  /\ Len(returned.res.errors) = 2
  /\ returned.res.completedSteps = 1
  /\ returned.res.totalSteps >= 2
  /\ ~returned.res.success

\* C14: the completion result reports every error recorded in a step of the
\* plan, in this run or before a hand-off, and it has success=true only if
\* none was recorded.
C14_ErrorsAggregated ==
  [][\A t \in Task :
       (tk[t].pc = "finish" /\ Returns(t)) =>
          /\ Len(returned'.res.errors) = tk[t].plan.noted
          /\ returned'.res.success => tk[t].plan.noted = 0]_vars

\* C15: the cursor of every run, the completedSteps of every result and the
\* currentStep of the plan in the slot lie between 0 and steps.length.
C15_CursorInRange ==
  /\ \A t \in Task :
        /\ tk[t].cur \in 0..Len(tk[t].plan.steps)
        /\ tk[t].plan.currentStep \in 0..Len(tk[t].plan.steps)
        /\ tk[t].pend.plan.currentStep \in 0..Len(tk[t].pend.plan.steps)
  /\ returned.res.completedSteps \in 0..returned.res.totalSteps
  /\ slot.plan.currentStep \in 0..Len(slot.plan.steps)

\* C15 witness: the state in the slot has its cursor at the end of a plan of
\* two or more steps, and the navigating result reports as many steps.
C15_Witness ==
  /\ slot # NoState
  /\ Len(slot.plan.steps) >= 2
  /\ slot.plan.currentStep = Len(slot.plan.steps)
  /\ returned.res.navigating
  /\ returned.res.completedSteps = returned.res.totalSteps

\* C16: a resumer that has removed a state from the slot goes on to run it:
\* initialize passes from the removal to its settling delay and from there into
\* executeFromStep, checkUrlChange passes from the removal into
\* executeFromStep; as long as the page is not unloaded neither drops the state.
C16_RemovedStateIsResumed ==
  [][\A t \in Resumer :
       /\ (tk[t].pc = "chk_clear" /\ tk'[t].pc # "chk_clear" /\ ~Reload) =>
             tk'[t].pc \in {"settle"} \cup EnginePcs
       /\ (tk[t].pc = "settle" /\ tk'[t].pc # "settle" /\ ~Reload) =>
             tk'[t].pc \in EnginePcs]_vars

\* C17: when a run ends, the status of its plan is completed if the result
\* has success=true and error if it has not.
C17_StatusAtEnd ==
  [][\A t \in Task :
       (Returns(t) /\ ~returned'.res.navigating) =>
          tk[t].plan.status = IF returned'.res.success THEN "completed"
                              ELSE "error"]_vars

\* C18: the observer is called once for each step begun, before the executor
\* runs, with the cursor value of that step and totalSteps = steps.length, and
\* the positions reported for a plan strictly increase, also across a resume.
C18_ProgressPerStep ==
  [][\A t \in Task :
       tk'[t].begun > tk[t].begun =>
          /\ tk'[t].begun = tk[t].begun + 1
          /\ tk'[t].calls = tk[t].calls + 1
          /\ ProgressCall(t).step = tk[t].cur
          /\ ProgressCall(t).total = Len(tk[t].plan.steps)
          /\ ProgressCall(t).step > reached[tk[t].plan.id]]_vars

\* The options of the select that carry a value and are not disabled.
Candidates ==
  {k \in 1..Len(solo.options) :
     solo.options[k].value # <<>> /\ ~solo.options[k].disabled}
\* The similarity of option k to the desired value: the larger of the score
\* against its value and the score against its text.
Sim(k) ==
  LET byValue == stringSimilarity(solo.desired, solo.options[k].value)
      byText == stringSimilarity(solo.desired, solo.options[k].text)
  IN IF byValue.num * byText.den >= byText.num * byValue.den THEN byValue
     ELSE byText
Highest(k) ==
  \A j \in Candidates : Sim(j).num * Sim(k).den <= Sim(k).num * Sim(j).den
AtLeastSixTenths(x) == 10 * x.num >= 6 * x.den
\* executeSelect has found its element, was not cancelled, and matches.
Matching ==
  /\ solo.pc = "sel_wait"
  /\ solo.present
  /\ ~solo.cancelled
  /\ solo'.pc # "sel_wait"

\* C19: among the options with a value that are not disabled, executeSelect
\* takes an option of the highest similarity to the desired value (the larger
\* of the scores against the option's value and text) and sets the select to
\* it exactly when that similarity is at least 0.6; otherwise the step fails
\* with fatal=true, lists at most 5 option texts and leaves the select's value
\* unchanged.  Grade A / Grade B / Grade C with 'grade a' select Grade A, and
\* Red / Blue / Green with 'xyz123' fail fatally.  A selection is followed by
\* a successful return that leaves the selected value in place.
C19_FuzzySelect ==
  [][/\ Matching =>
          /\ IF \E k \in Candidates : AtLeastSixTenths(Sim(k))
               THEN /\ \E k \in Candidates :
                         /\ Highest(k)
                         /\ solo'.value = solo.options[k].value
                    /\ solo'.result.status = "running"
                    /\ solo'.pc = "sel_delay"
               ELSE /\ solo'.result.status = "returned"
                    /\ ~solo'.result.success
                    /\ solo'.result.fatal
                    /\ Len(solo'.result.listed) <= 5
                    /\ \A i \in 1..Len(solo'.result.listed) :
                         \E k \in Candidates :
                            solo'.result.listed[i] = solo.options[k].text
                    /\ solo'.value = solo.value
          /\ (solo.options = Grades /\ solo.desired = sLowerGradeA)
               => solo'.value = sGradeA
          /\ (solo.options = Colours /\ solo.desired = sXyz123)
               => solo'.result.fatal /\ ~solo'.result.success
     /\ (solo.pc = "sel_delay" /\ solo'.pc # "sel_delay")
          => /\ solo'.result.status = "returned"
             /\ solo'.result.success
             /\ solo'.value = solo.value]_vars

\* Grade A was selected for 'grade a' and the step has returned success.
C19_Witness ==
  /\ solo.kind = "select"
  /\ solo.options = Grades
  /\ solo.desired = sLowerGradeA
  /\ solo.value = sGradeA
  /\ solo.result.status = "returned"
  /\ solo.result.success

\* The lookups of the row that found nothing.
FailedLooks == {i \in 1..Len(solo.looks) : ~solo.looks[i]}
\* Each failed lookup is followed by a 1 s pause and then a cancellation
\* check; at "fr_pause" the pause after the last failed lookup is under way.
PausedAfterEachFailure ==
  /\ solo.checks = solo.pauses
  /\ solo.pauses = IF solo.pc = "fr_pause" THEN Cardinality(FailedLooks) - 1
                   ELSE Cardinality(FailedLooks)
FoundAtThird == solo.looks = <<FALSE, FALSE, TRUE>>
AbsentAtAllThree == solo.looks = <<FALSE, FALSE, FALSE>>
FatalFailure ==
  /\ solo.result.status = "returned"
  /\ ~solo.result.success
  /\ solo.result.fatal

\* C20 as stated: at most 3 lookups with a pause and a cancellation check
\* after each failed one; a row found at the third lookup makes the step
\* succeed, a row absent at all three makes it fail with fatal=true, nothing
\* clicked.
C20_RetryAsStated ==
  solo.kind = "find-row" =>
    /\ Len(solo.looks) <= 3
    /\ PausedAfterEachFailure
    /\ (FoundAtThird /\ solo.pc = "done") => solo.result.success
    /\ (AbsentAtAllThree /\ solo.pc = "done") => FatalFailure /\ ~solo.clicked

\* C20: executeFindRow looks the row up at most 3 times, stops looking once
\* the row is found, and pauses 1 s and checks cancellation after each failed
\* lookup; it does not give up before the third lookup.  A row found at the
\* third lookup is the row the step goes on with: the step then succeeds
\* unless the row has no action control (fatal, nothing clicked), a named
\* follow-up element does not appear (not fatal) or a cancellation check
\* finds the token cancelled.  A row absent at all three lookups means that
\* nothing is clicked and that the step fails with fatal=true, unless the
\* check after the third pause finds the token cancelled.
C20_Retry ==
  solo.kind = "find-row" =>
    /\ Len(solo.looks) <= 3
    /\ \A i \in 1..(Len(solo.looks) - 1) : ~solo.looks[i]
    /\ PausedAfterEachFailure
    /\ (solo.pc = "done" /\ solo.result.error = "Could not find record")
         => AbsentAtAllThree
    /\ FoundAtThird =>
         /\ solo.pc \notin {"fr_pause", "fr_settle", "fr_start"}
         /\ solo.result.success => solo.clicked
         /\ solo.pc = "done" =>
              \/ solo.result.success
              \/ /\ FatalFailure
                 /\ solo.result.error = "Could not find button in the row"
                 /\ ~solo.clicked
              \/ /\ solo.result.status = "returned"
                 /\ ~solo.result.success
                 /\ ~solo.result.fatal
                 /\ solo.result.error = "Expected element did not appear"
                 /\ solo.waitFor
              \/ /\ solo.result.status = "threw"
                 /\ solo.cancelled
    /\ AbsentAtAllThree =>
         /\ ~solo.clicked
         /\ solo.marks = {}
         /\ solo.pc \in {"fr_pause", "done"}
         /\ solo.pc = "done" =>
              \/ FatalFailure /\ solo.result.error = "Could not find record"
              \/ solo.result.status = "threw" /\ solo.cancelled
         /\ (solo.pc = "done" /\ ~solo.cancelled) => FatalFailure

\* The row appeared at the third lookup, after two pauses, and the step
\* clicked its action control and returned success.
C20_Witness ==
  /\ solo.kind = "find-row"
  /\ FoundAtThird
  /\ solo.pauses = 2
  /\ solo.clicked
  /\ solo.result.status = "returned"
  /\ solo.result.success

\* C21: the accepting stub is never left in place: once the executor has
\* ended and every restore timer has fired, window.confirm is the page's own
\* handler again, whatever find-row steps ran, also two delete steps less
\* than 2 s apart or a cancelled step.
C21_ConfirmRestored ==
  (solo.kind = "find-row" /\ solo.pc = "done" /\ solo.timers = <<>>)
    => solo.confirm = "page"

\* The field holds nothing but characters among the first typed characters
\* of the value, in their order, unless a corrective rewrite has been made.
RECURSIVE IsSubsequence(_, _)
IsSubsequence(a, b) ==
  IF a = <<>> THEN TRUE
  ELSE IF b = <<>> THEN FALSE
  ELSE IF Head(a) = Head(b) THEN IsSubsequence(Tail(a), Tail(b))
  ELSE IsSubsequence(a, Tail(b))
Typing == solo.kind = "fill" /\ solo.pc = "fl_typing"

\* C22: when cancel is signalled while a fill step types its value and k
\* characters have been written, no further character is written: the field
\* keeps what it holds, which is at most the first k characters of the value
\* (no corrective rewrite is made on this path, and never more than one),
\* and the step ends by raising the cancellation, not by returning success.
C22_CancelDuringTyping ==
  /\ [](Typing =>
          /\ solo.typed <= Len(solo.desired)
          /\ solo.rewrites = 0
          /\ IsSubsequence(solo.value, SubSeq(solo.desired, 1, solo.typed)))
  /\ [](solo.kind = "fill" => solo.rewrites <= 1)
  /\ [][(Typing /\ solo.cancelled) =>
          /\ solo'.result.status = "threw"
          /\ solo'.pc = "done"
          /\ solo'.typed = solo.typed
          /\ solo'.value = solo.value
          /\ solo'.rewrites = solo.rewrites]_vars
  /\ [][(solo.kind = "fill" /\ solo.pc = "done") => solo' = solo]_vars

\* Cancel came after the first of three characters: the field holds that
\* character alone and the step has raised the cancellation.
C22_Witness ==
  /\ solo.kind = "fill"
  /\ solo.desired = sAbc
  /\ solo.typed = 1
  /\ solo.value = <<"a">>
  /\ solo.cancelled
  /\ solo.result.status = "threw"

\* C23: no stray highlight.  Whenever an invocation of the engine returns a
\* result (completed, failed, fatal, cancelled or navigating), no element
\* carries the marker class.
C23_NoStrayHighlight ==
  [][\A t \in Task : Returns(t) => ghostMarks' = {}]_vars

\* The step activity t is executing fails in this step because its element
\* was not found.
NotFound(t) ==
  /\ tk[t].pc \in StepPcs \cup {"loop"}
  /\ Len(tk'[t].errors) = Len(tk[t].errors) + 1
  /\ tk'[t].errors[Len(tk'[t].errors)] \in
       {"Element not found", "Submit button not found",
        "Navigation element not found"}

\* C24: a step whose element is not found fails fatally for fill and submit
\* (the loop is left with the cursor on the step) and not fatally for
\* navigate (the failure is recorded and the loop goes on with the next
\* step).
C24_NotFoundClassification ==
  [][\A t \in Task :
       NotFound(t) =>
         IF tk[t].plan.steps[tk[t].cur + 1].type \in {"fill", "submit"}
           THEN tk'[t].pc = "finish" /\ tk'[t].cur = tk[t].cur
           ELSE tk'[t].pc = "loop" /\ tk'[t].cur = tk[t].cur + 1]_vars

\* The value of the fill or select step names the entity key, and the
\* entities hold no entry or an empty entry under it.
MissingValue ==
  /\ solo.kind \in {"fill", "select"}
  /\ solo.given = sKey
  /\ ~solo.entry.defined \/ solo.entry.text = <<>>

\* C25: a fill or select step whose value names an entity key without an
\* entry, or with an empty one, fails with fatal=true when it begins (unless
\* it is cancelled first) and never writes to the field or the select.
C25_MissingValueIsFatal ==
  [][MissingValue =>
       /\ solo'.value = solo.value
       /\ (solo.pc \in {"fl_start", "sel_start"} /\ ~solo.cancelled
             /\ solo'.pc # solo.pc)
            => /\ solo'.result.status = "returned"
               /\ ~solo'.result.success
               /\ solo'.result.fatal]_vars

\* The submit step has clicked and has returned its result.
Submitted ==
  /\ solo.kind = "submit"
  /\ solo.pc = "done"
  /\ solo.clicked
  /\ solo.result.status = "returned"
Declared == solo.waitFor \/ solo.errorSel
TimedOut ==
  /\ ~solo.result.success
  /\ ~solo.result.fatal
  /\ solo.result.error = "Submission timed out"
ErrorText == IF trim(solo.errText) = <<>> THEN sUnknownError ELSE trim(solo.errText)

\* C26 as stated: the outcome follows the declared element that appeared
\* first: the error element gives a fatal failure carrying its text, the
\* success element gives success, neither gives the non-fatal timeout
\* failure; no selector declared gives success.
C26_SubmitOutcomeAsStated ==
  Submitted =>
    IF ~Declared THEN solo.result.success
    ELSE /\ solo.first = "error" =>
              /\ ~solo.result.success
              /\ solo.result.fatal
              /\ solo.result.detail = ErrorText
         /\ solo.first = "success" => solo.result.success
         /\ solo.first = "none" => TimedOut

\* waitForEither makes a poll in this step.
Polls == solo.kind = "submit" /\ solo'.polls = solo.polls + 1

\* C26: after the click a submit step without a success or error selector
\* succeeds.  Otherwise it polls every 100 ms, at most 100 times (10 s); the
\* first poll at which a declared element is on the page decides: the
\* success element gives success, also when the error element is there too;
\* the error element alone gives a fatal failure carrying its trimmed text
\* ('Unknown error' when that is empty); and when no poll has seen a
\* declared element the step fails, not fatally, with the timeout.
C26_SubmitOutcome ==
  /\ [](solo.kind = "submit" => solo.polls * PollInterval <= 100)
  /\ [](Submitted =>
          /\ ~Declared => solo.result.success /\ solo.polls = 0
          /\ (Declared /\ solo.result.success) => solo.okShown
          /\ solo.result.fatal =>
               /\ solo.errShown
               /\ ~solo.okShown
               /\ solo.result.detail = ErrorText
          /\ TimedOut => solo.polls = 100
          /\ solo.result.success \/ solo.result.fatal \/ TimedOut)
  /\ [][Polls =>
          IF solo.waitFor /\ solo.okShown
            THEN solo'.pc = "done" /\ solo'.result.success
          ELSE IF solo.errorSel /\ solo.errShown
            THEN /\ solo'.pc = "done"
                 /\ ~solo'.result.success
                 /\ solo'.result.fatal
            ELSE solo'.pc = "sb_poll" /\ solo'.result.status = "running"]_vars
  /\ [][(solo.kind = "submit" /\ solo.pc \in {"sb_clicked", "sb_poll"}
           /\ solo'.pc = "done" /\ ~Polls)
          => \/ ~Declared
             \/ solo.polls = 100 /\ solo'.result.error = "Submission timed out"]_vars

\* The error element appeared alone and was seen at a later poll: the step
\* failed fatally with the element's text.
C26_Witness ==
  /\ Submitted
  /\ solo.first = "error"
  /\ ~solo.okShown
  /\ solo.polls = 3
  /\ solo.result.fatal
  /\ solo.result.detail = sRed

\* The manifest the page offers first: window.__GLIDE__, then the script
\* tag, then the file.
Offered ==
  IF solo.page.global.from # "none" THEN solo.page.global
  ELSE IF solo.page.script.from = "script"
    THEN solo.page.script
  ELSE solo.page.file
Unsupported(m) == m.schemaVersion \notin {"absent", "", "1.0.0"}

\* C27: loadManifest returns and caches the manifest the page offers whatever
\* its schemaVersion: an unsupported version only logs the warning, and a
\* manifest without schemaVersion counts as 1.0.0 and logs none.  Later
\* calls return the cached manifest.
C27_UnsupportedVersionLoaded ==
  (solo.kind = "load" /\ solo.pc = "done") =>
    /\ solo.loaded = Offered
    /\ solo.cache = Offered
    /\ (solo.calls = 1 /\ Offered.from # "none") =>
         (solo.warned <=> Unsupported(Offered))
    /\ Offered.schemaVersion = "absent" => ~solo.warned

\* A manifest of version 2.0.0 was loaded from the file, with the warning.
C27_Witness ==
  /\ solo.kind = "load"
  /\ solo.pc = "done"
  /\ solo.loaded = [from |-> "file", schemaVersion |-> "2.0.0"]
  /\ solo.cache = solo.loaded
  /\ solo.warned

\* findElement was called with a label reference; Wanted is its label text
\* and AsType its input type (empty when none is given).
Resolved ==
  /\ solo.kind = "find"
  /\ solo.pc = "done"
  /\ startsWithLabel(solo.selector)
Reference ==
  splitBar(SubSeq(solo.selector, Len(sLabelPrefix) + 1, Len(solo.selector)), <<>>)
Wanted == Reference[1]
AsType == IF Len(Reference) >= 2 THEN Reference[2] ELSE <<>>
Matches(k) ==
  includes(toLowerCase(solo.labels[k].text), toLowerCase(Wanted))

\* C28: findElement('label:<text>[|<type>]') returns an element of a label
\* whose text contains <text> case-insensitively: the element its for
\* attribute names, else one nested in the label, else one inside the
\* label's parent, in this order when no type is given; with a type, the
\* element returned always has that type.  label for=f1 'Full Name' with
\* input f1 resolves 'label:Full Name' to input f1.
C28_LabelLocator ==
  Resolved =>
    /\ solo.found # NoElement =>
         \E k \in 1..Len(solo.labels) :
            /\ Matches(k)
            /\ solo.found \in {solo.labels[k].for, solo.labels[k].nested,
                               solo.labels[k].inParent}
            /\ AsType = <<>> =>
                 solo.found =
                   IF solo.labels[k].for # NoElement THEN solo.labels[k].for
                   ELSE IF solo.labels[k].nested # NoElement
                     THEN solo.labels[k].nested
                   ELSE solo.labels[k].inParent
    /\ (AsType # <<>> /\ solo.found # NoElement) => solo.found.type = AsType
    /\ (solo.labels = <<Label(sFullName, InputF1, NoElement, NoElement)>>
          /\ solo.selector = sLabelPrefix \o sFullName)
         => solo.found = InputF1

\* The step at index tk[t].cur has just returned needsNavigation.
Signals(t) == tk[t].pc = "nav_clicked" /\ tk'[t].pc = "saving"

\* The page was torn down by the navigation while the invocation was waiting.
Unloaded == returned' = NoReturn /\ navPending /\ ~navPending'

\* What the engine does from the signal on: the plan is advanced past the step
\* without another step begun, and once saveExecutionState has answered the slot
\* holds that plan, the token is dropped and the navigating result returned.
C29_Suspends(t) ==
  /\ Signals(t) =>
       /\ tk'[t].plan.currentStep = tk[t].cur + 1
       /\ tk'[t].plan.status = "executing"
       /\ tk'[t].plan.steps = tk[t].plan.steps
       /\ tk'[t].cur = tk[t].cur
       /\ tk'[t].begun = tk[t].begun
  /\ (tk[t].pc = "saving" /\ tk'[t].pc # "saving" /\ ~Unloaded) =>
       /\ tk'[t].pc = "idle"
       /\ slot' # NoState
       /\ slot'.plan.id = tk[t].plan.id
       /\ slot'.plan.steps = tk[t].plan.steps
       /\ slot'.plan.currentStep = tk[t].cur + 1
       /\ slot'.plan.status = "executing"
       /\ engToken' = NoToken
       /\ returned'.by = t
       /\ returned'.res.navigating
       /\ returned'.res.success
       /\ ~returned'.res.cancelled
       /\ returned'.res.completedSteps = tk[t].cur + 1
       /\ returned'.res.totalSteps = Len(tk[t].plan.steps)

\* C29: when the step at index i signals needsNavigation, the engine writes the
\* plan with currentStep = i+1 and status executing to the durable slot, drops
\* the active token and returns navigating = true, success = true and
\* completedSteps = i+1; the invocation begins no later step and leaves the
\* slot filled.
C29_SuspendedOnNavigation == [][\A t \in Task : C29_Suspends(t)]_vars

\* C29 witness: the second step of a plan signalled needsNavigation; the
\* invocation has returned the navigating result and the slot holds the plan
\* at cursor 2.
C29_Witness ==
  /\ returned.by \in Task
  /\ returned.res.navigating
  /\ returned.res.completedSteps = 2
  /\ tk[returned.by].pc = "idle"
  /\ slot # NoState
  /\ slot.plan.currentStep = 2
  /\ slot.plan.status = "executing"
  /\ engToken = NoToken

\* The step begun in this step is a navigate step whose target is the route the
\* page is on.
NoOp(t) ==
  /\ tk[t].pc = "loop"
  /\ tk'[t].begun = tk[t].begun + 1
  /\ tk'[t].nav = "current"

\* The loop stands after a no-op navigate step with a step left and no
\* cancellation requested.
AfterNoOp(t) ==
  /\ tk[t].pc = "loop"
  /\ tk[t].nav = "current"
  /\ tk[t].cur < Len(tk[t].plan.steps)
  /\ ~IsCancelled(tk[t].token)

PdReturns == solo.kind = "pending" /\ solo.pc # "done" /\ solo'.pc = "done"

\* The slot holds a state whose plan has status executing.
Resumable == solo.stored # NoState /\ solo.stored.plan.status = "executing"

\* C31: checkPendingExecution returns the stored state and removes it only when
\* a state is present and the status of its plan is executing; with an empty
\* slot or a plan of another status it returns null and leaves the slot as it
\* is.
C31_CheckPending ==
  [][/\ (solo.pc = "pd_load" /\ solo'.pc # "pd_load") =>
          IF Resumable
            THEN solo'.pc = "pd_clear" /\ solo'.stored = solo.stored
            ELSE /\ solo'.pc = "done"
                 /\ solo'.pending = NoState
                 /\ solo'.stored = solo.stored
     /\ (PdReturns /\ solo.pc = "pd_clear") =>
          /\ Resumable
          /\ solo'.pending = solo.stored
          /\ solo'.stored = NoState]_vars

\* C31 witness: the check has returned null for a stored plan whose status is
\* confirmed, and the state is still in the slot.
C31_Witness ==
  /\ solo.kind = "pending"
  /\ solo.pc = "done"
  /\ solo.pending = NoState
  /\ solo.stored # NoState
  /\ solo.stored.plan.status = "confirmed"

\* C32: resumeExecution with no manifest loaded clears the durable slot and
\* returns success = false, completedSteps = 0, totalSteps = 0 and the message
\* 'No manifest loaded'; it does not take the single-flight lock and hands
\* nothing to executeFromStep, so no step is executed.
C32_ResumeWithoutManifest ==
  [][(solo.kind = "resume" /\ ~solo.hasManifest) =>
        /\ solo'.lock = solo.lock
        /\ ~solo'.delegated
        /\ (solo.pc # "done" /\ solo'.pc = "done") =>
             /\ solo'.stored = NoState
             /\ ~solo'.outcome.success
             /\ solo'.outcome.completedSteps = 0
             /\ solo'.outcome.totalSteps = 0
             /\ solo'.outcome.message = "No manifest loaded"
             /\ ~solo'.outcome.navigating]_vars

\* C32 witness: resumeExecution has returned 'No manifest loaded' with the
\* lock free and the slot empty.
C32_Witness ==
  /\ solo.kind = "resume"
  /\ ~solo.hasManifest
  /\ solo.pc = "done"
  /\ solo.outcome.message = "No manifest loaded"
  /\ ~solo.lock
  /\ solo.stored = NoState

\* A call on the token is made in this step.
TokenOp(op) == solo.kind = "token" /\ solo' # solo /\ solo'.op = op

\* C33: a cancellation token starts not cancelled; once cancelled it stays
\* cancelled; cancel() on a cancelled token changes nothing, and the token calls
\* a registered callback at most once in its life; throwIfCancelled throws
\* exactly when the token is cancelled and changes nothing.
C33_TokenLaw ==
  [][/\ TokenOp("create") => ~solo'.token.isCancelled /\ solo'.token.invoked = 0
     /\ (solo.kind = "token" /\ solo.pc = "tk_live") =>
          /\ solo.token.isCancelled => solo'.token.isCancelled
          /\ solo'.token.invoked <= 1
     /\ (solo.kind = "token" /\ solo.pc = "tk_live" /\ solo'.pc = "tk_live"
           /\ solo'.op = "cancel" /\ solo' # solo) =>
          /\ solo'.token.isCancelled
          /\ solo.token.isCancelled => solo'.token = solo.token
     /\ (solo.kind = "token" /\ solo.pc = "tk_live" /\ solo'.op = "check"
           /\ solo' # solo) =>
          /\ solo'.raised = solo.token.isCancelled
          /\ solo'.token = solo.token]_vars

\* C33 witness: a token with a callback registered was cancelled, the callback
\* was called once, and a later throwIfCancelled threw.
C33_Witness ==
  /\ solo.kind = "token"
  /\ solo.token.isCancelled
  /\ solo.token.onCancel \in Callbacks
  /\ solo.token.invoked = 1
  /\ solo.op = "check"
  /\ solo.raised

\* C34: a check step that succeeds leaves the checkbox checked and unmarked; on
\* a box that is already checked it changes no state and dispatches no change
\* event, so a second run adds nothing to the effect of the first; a box that
\* was not checked is checked with exactly one change event.
C34_CheckIdempotent ==
  [][solo.kind = "check" =>
       /\ solo.box => (solo'.box /\ solo'.changes = solo.changes)
       /\ (~solo.box /\ solo'.box) => solo'.changes = solo.changes + 1
       /\ (solo.pc # "done" /\ solo'.pc = "done" /\ solo'.result.success) =>
            (solo'.box /\ solo'.marks = {})]_vars

\* C34 witness: the step has run twice with success on a box that was not
\* checked at first, and one change event was dispatched in all.
C34_Witness ==
  /\ solo.kind = "check"
  /\ solo.calls = 2
  /\ solo.pc = "done"
  /\ solo.result.success
  /\ solo.box
  /\ solo.changes = 1

\* The trimmed, lower-cased string and its whitespace tokens, as the runs of
\* characters other than spaces.
Norm(str) == trim(toLowerCase(str))
Runs(str) ==
  {r \in (1..Len(str)) \X (1..Len(str)) :
     /\ r[1] <= r[2]
     /\ \A k \in r[1]..r[2] : str[k] # " "
     /\ r[1] = 1 \/ str[r[1] - 1] = " "
     /\ r[2] = Len(str) \/ str[r[2] + 1] = " "}
RunText(str, r) == SubSeq(str, r[1], r[2])
Overlapping(a, b) ==
  {r \in Runs(a) : \E q \in Runs(b) :
      \/ includes(RunText(a, r), RunText(b, q))
      \/ includes(RunText(b, q), RunText(a, r))}
Larger(m, n) == IF m > n THEN m ELSE n
Compared == solo.kind = "similarity" /\ solo.pc = "done"

\* C35: stringSimilarity(a, b) is 1 when the trimmed, lower-cased strings are
\* equal, 0.9 when one of them contains the other, and otherwise the number of
\* whitespace tokens of a that contain or are contained in a token of b,
\* divided by the larger token count; the result is always within [0, 1].
C35_Similarity ==
  Compared =>
    LET a == Norm(solo.given)
        b == Norm(solo.desired)
        x == solo.score
    IN /\ x.den > 0 /\ 0 <= x.num /\ x.num <= x.den
       /\ IF a = b THEN x.num = x.den
          ELSE IF includes(a, b) \/ includes(b, a) THEN 10 * x.num = 9 * x.den
          ELSE x.num * Larger(Cardinality(Runs(a)), Cardinality(Runs(b)))
                 = Cardinality(Overlapping(a, b)) * x.den

\* C35 witness: three words against five, all three matched: 3/5.
C35_Witness ==
  /\ Compared
  /\ solo.given = sRedBlueGreen
  /\ solo.desired = sThreeOfFive
  /\ solo.score.num * 5 = 3 * solo.score.den

\* The state of a suspended plan leaves the slot in this step: the slot is
\* emptied or taken by the state of another plan.
Removed ==
  /\ slot # NoState
  /\ slot' = NoState \/ slot'.plan.id # slot.plan.id

\* A resumer that has read this state removes it.
ByResumer ==
  \E t \in Resumer :
    /\ tk[t].pc = "chk_clear"
    /\ tk'[t].pc # "chk_clear"
    /\ tk[t].pend.plan.id = slot.plan.id
    /\ tk[t].pend.plan.currentStep = slot.plan.currentStep

\* A cancelled run of the same plan removes it.
ByCancellation ==
  \E t \in Task :
    /\ tk[t].pc \in {"cancel_in", "cancel_out"}
    /\ tk[t].plan.id = slot.plan.id
    /\ Returns(t)

\* C36: the persisted state of a suspended plan leaves the durable slot only
\* when a resumer that read it removes it or when that plan is cancelled; a
\* different plan that is started, run and completed in the same context while
\* the hand-off is pending leaves it in the slot.
C36_StateOutlivesOtherPlans == [][Removed => (ByResumer \/ ByCancellation)]_vars

\* Activity t enters the loop of executeFromStep in this step.
Starts(t) == ~Active(t) /\ tk'[t].pc = "loop"

\* C37: a run started by executePlan begins at step 0 with status executing
\* whatever cursor and status the plan of the message carried; a run started
\* by resumeExecution begins at the cursor of the state it was given, with the
\* plan of that state; no other run begins at a cursor other than 0.
C37_StartCursors ==
  [][/\ Starts("msg") =>
          /\ tk'["msg"].cur = 0
          /\ tk'["msg"].plan.currentStep = 0
          /\ tk'["msg"].plan.status = "executing"
          /\ tk'["msg"].plan.steps = planned
     /\ \A t \in Resumer :
          Starts(t) =>
            /\ tk[t].pc \in {"settle", "chk_clear"}
            /\ tk'[t].cur = tk[t].pend.plan.currentStep
            /\ tk'[t].plan.currentStep = tk[t].pend.plan.currentStep
            /\ tk'[t].plan.steps = tk[t].pend.plan.steps
            /\ tk'[t].plan.id = tk[t].pend.plan.id
     /\ \A t \in Task : (Starts(t) /\ tk'[t].cur # 0) => t \in Resumer]_vars

\* C37 witness: a resumed run stands at the head of the loop at cursor 1, the
\* cursor of the state it was given, while the second plan of the popup has
\* been started.
C37_Witness ==
  \E t \in Resumer :
    /\ tk[t].pc = "loop"
    /\ tk[t].begun = 0
    /\ tk[t].cur = 1
    /\ tk[t].pend.plan.currentStep = 1
    /\ execs = 2

\* A submit step that declares an error selector and no success selector has
\* clicked and returned.
ErrorOnly == Submitted /\ solo.errorSel /\ ~solo.waitFor
FatalFormError ==
  /\ ~solo.result.success
  /\ solo.result.fatal
  /\ solo.result.error = "Form error"
  /\ solo.result.detail = ErrorText

\* C38 as stated: such a step never returns success; it returns the fatal form
\* error if the error element has appeared within the 10 s, and the non-fatal
\* 'Submission timed out' failure otherwise.
C38_ErrorOnlyAsStated ==
  ErrorOnly =>
    /\ ~solo.result.success
    /\ IF solo.errShown THEN FatalFormError ELSE TimedOut

\* C38: such a step never returns success: the first of the polls, made every
\* 100 ms for 10 s, that finds the error element on the page gives the fatal
\* form error with the element's text, and when none of the 100 polls has
\* found it, also when it appears after the last of them, the step returns
\* the non-fatal 'Submission timed out' failure.
C38_ErrorOnlySubmit ==
  /\ [](ErrorOnly =>
          /\ ~solo.result.success
          /\ \/ FatalFormError /\ solo.errShown /\ solo.polls <= 100
             \/ TimedOut /\ solo.polls = 100)
  /\ [][(Polls /\ solo.errorSel /\ ~solo.waitFor) =>
          IF solo.errShown
            THEN /\ solo'.pc = "done"
                 /\ solo'.result.fatal
                 /\ solo'.result.error = "Form error"
            ELSE solo'.pc = "sb_poll"]_vars

\* C38 witness: no error element ever appeared, as after a submission the
\* page accepted, and the step failed with the timeout after 100 polls.
C38_Witness ==
  /\ ErrorOnly
  /\ ~solo.errShown
  /\ solo.polls = 100
  /\ TimedOut

\* The options that reach the highest similarity to the desired value.
Tied == {k \in Candidates : Highest(k)}
FirstTied == CHOOSE k \in Tied : \A j \in Tied : k <= j

\* C39: when several options reach the same highest similarity, executeSelect
\* selects the first of them in option order.
C39_FirstOfEqualsWins ==
  [][(Matching /\ solo'.pc = "sel_delay") =>
        /\ Tied # {}
        /\ solo'.value = solo.options[FirstTied].value]_vars

\* C39 witness: 'grade' is part of Grade C, Grade B and Grade A alike; of the
\* three, listed in this order, the first was selected.
C39_Witness ==
  /\ solo.kind = "select"
  /\ solo.options = GradesReversed
  /\ solo.desired = sGrade
  /\ solo.pc = "sel_delay"
  /\ solo.value = sGradeC

--------------------------------------------------------------------------
(* C40: callGeminiAPI ends whatever the responses are: a 429 is retried at
   most 3 times in all, after 2000 * 2^retryCount ms unless the response names
   a delay; the fallback model is switched to at most once, on a status of 500
   or more from the primary model, and the retry count is kept; at most 5
   requests are sent before the call returns a response or throws. *)
Gemini == solo.kind = "gemini"

RECURSIVE TwoTo(_)
TwoTo(n) == IF n = 0 THEN 1 ELSE 2 * TwoTo(n - 1)

\* The i-th wait follows i - 1 earlier retries.
Backoff(i) ==
  LET w == solo.waited[i]
  IN IF w.named.matched THEN w.ms = w.named.seconds * 1000
     ELSE w.ms = 2000 * TwoTo(i - 1)

\* A request to the fallback model is never followed by one to the primary,
\* and the first one to the fallback follows a server error of the primary.
OneSwitch ==
  \A i \in 1..(Len(solo.models) - 1) :
    /\ solo.models[i] = "fallback" => solo.models[i + 1] = "fallback"
    /\ (solo.models[i] = "primary" /\ solo.models[i + 1] = "fallback")
         => solo.statuses[i] >= 500

Bounded ==
  /\ Len(solo.waited) <= 3
  /\ \A i \in 1..Len(solo.waited) : Backoff(i)
  /\ Len(solo.waited) = Cardinality({i \in 1..Len(solo.statuses) : solo.statuses[i] = 429})
                         - (IF solo.reply = "quota" THEN 1 ELSE 0)
  /\ solo.retryCount = Len(solo.waited) - (IF solo.pc = "gm_wait" THEN 1 ELSE 0)
  /\ OneSwitch
  /\ Len(solo.models) <= 5
  /\ solo.pc = "done" => solo.reply \in {"returned", "quota", "api_error", "network"}

C40_GeminiTerminates ==
  /\ [](Gemini => Bounded)
  /\ [](Gemini => <>(solo.pc = "done"))

\* Five requests were sent, the last four after three waits and one switch, the
\* third wait being one of 8000 ms.
C40_Witness ==
  /\ Gemini
  /\ solo.pc = "done"
  /\ Len(solo.models) = 5
  /\ solo.models[5] = "fallback"
  /\ Len(solo.waited) = 3
  /\ solo.waited[3].ms = 8000

====
